---- MODULE Spec2Model ----
(***************************************************************************)
(* Switchboard: the execution engine (executor, orchestrator, run          *)
(* environments) and the part of the UI that consumes its events.          *)
(*                                                                         *)
(* One execution is followed from SwitchboardApp::perform_execution to the *)
(* last event its worker delivers.  Two implementations of execute are     *)
(* modelled: SshExecutor::execute (executor.rs) and the Executor that runs *)
(* orchestrate_execution over a RunEnvironment (orchestration.rs,          *)
(* run_environment/local.rs, run_environment/ssh.rs).                      *)
(***************************************************************************)
EXTENDS Integers, Sequences, FiniteSets, TLC

(***************************************************************************)
(* Bounds                                                                  *)
(***************************************************************************)
\* number of output chunks a process writes at most
MaxChunks == 2
\* number of times the Kill button is pressed at most
MaxKills == 1
NumExecs == 2
ConcChunks == 1
MaxFaults == 1

(***************************************************************************)
(* Strings are sequences of characters so that to_lowercase is computed.   *)
(***************************************************************************)
S_local == <<"l", "o", "c", "a", "l">>
S_Local == <<"L", "o", "c", "a", "l">>
S_localhost == <<"l", "o", "c", "a", "l", "h", "o", "s", "t">>
S_LocalHost == <<"L", "o", "c", "a", "l", "H", "o", "s", "t">>
S_loopback == <<"1", "2", "7", ".", "0", ".", "0", ".", "1">>
S_Remote == <<"R", "e", "m", "o", "t", "e">>
S_example == <<"e", "x", ".", "c", "o", "m">>
S_root == <<"r", "o", "o", "t">>
S_empty == <<>>

\* char::to_lowercase on the characters that occur
LowerChar(c) ==
  CASE c = "L" -> "l"
    [] c = "H" -> "h"
    [] c = "R" -> "r"
    [] OTHER -> c

\* str::to_lowercase
to_lowercase(s) == [i \in 1..Len(s) |-> LowerChar(s[i])]

\* Option<T>: None is <<>>, Some(v) is <<v>>
None == <<>>
Some(v) == <<v>>

(***************************************************************************)
(* ExecutionUpdate (models.rs): t is the variant, s the text or id of      *)
(* Started/Stdout/Stderr, c the code of Exit.                              *)
(***************************************************************************)
Started(id) == [t |-> "Started", s |-> <<id>>, c |-> 0]
Stdout(text) == [t |-> "Stdout", s |-> text, c |-> 0]
Stderr(text) == [t |-> "Stderr", s |-> text, c |-> 0]
Exit(code) == [t |-> "Exit", s |-> <<>>, c |-> code]

KillNotice == "[Killing execution...]"
TerminatedNotice == "[Execution terminated]"

(***************************************************************************)
(* Host selection                                                          *)
(***************************************************************************)
\* the comparison of host.name without to_lowercase
SshExecutorIsLocalCaseSensitive(h) ==
  \/ h.name = S_local
  \/ to_lowercase(h.hostname) = S_localhost
  \/ h.hostname = S_loopback

\* executor.rs: the condition under which SshExecutor::execute runs locally
SshExecutorIsLocal(h) ==
  \/ to_lowercase(h.name) = S_local
  \/ to_lowercase(h.hostname) = S_localhost
  \/ h.hostname = S_loopback

\* app.rs perform_execution: the Host built for a command
DummyHost(cmdHost, cmdUser) ==
  [ name |-> IF cmdHost # None THEN S_Remote ELSE S_local,
    hostname |-> IF cmdHost # None THEN cmdHost[1] ELSE S_localhost,
    port |-> 22,
    username |-> IF cmdUser # None THEN cmdUser[1] ELSE S_root,
    auth |-> "Agent" ]

VARIABLES
  impl,          \* which executor the application holds
  host,          \* the Host handed to execute
  background,    \* command.background
  scriptStatus,  \* the exit status with which the staged script terminates
  pc,            \* the worker's position
  ret,           \* what execute returned to its caller
  events,        \* every update handed to on_update, in delivery order
  killq,         \* number of signals waiting in the kill channel
  kills,         \* number of signals sent so far
  proc,          \* the child process: none, running, exited, killed
  pipeOut,       \* bytes in the child's stdout pipe, not yet read
  pipeErr,       \* bytes in the child's stderr pipe, not yet read
  written,       \* every chunk the child wrote, in order
  chan,          \* LocalRunEnvironment::run's out_tx/out_rx channel
  rxAlive,       \* out_rx has not been dropped
  failure,       \* the failure the worker ran into, "none" if none
  killObserved,  \* kill_rx.try_recv returned Ok
  killLive,      \* a signal was sent while the child ran, before any Exit
  killLate,      \* a signal was sent after Exit was delivered
  killEarly,     \* a signal was sent before the child was spawned
  script_file,   \* the script staged by orchestrate_execution: absent, staged
  uiPos,         \* number of events the UI has taken from execution_rx
  is_running,    \* ExecutionState.is_running
  exit_code,     \* ExecutionState.exit_code
  kill_tx,       \* ExecutionState.kill_tx is Some
  output_buffer, \* ExecutionState.output_buffer
  persisted,     \* results handed to CommandStore::add_execution
  selHost,       \* host selection: the host under test
  selLocal,      \* host selection: what execute chose for selHost
  workers,       \* concurrent executions: the state of each worker
  execution_rx,  \* concurrent executions: the (exec_id, update) channel
  data,          \* CommandStore.data: the StoreData behind the RwLock
  file,          \* the content of the file at CommandStore.path
  tmp,           \* the content of the sibling file with extension json.tmp
  st_pc,         \* the position of the store call in progress
  json,          \* save: the serialization it is writing
  oldFile,       \* the content of the live file before the save in progress
  saved,         \* how the last save ended: none, ok, failed
  returned,      \* what the last store call returned, <<>> for ()
  faults,        \* number of I/O failures and crashes so far
  logs,          \* the files of the executions directory, by file name
  snapshots,     \* the files of the snapshots directory, by file name
  active_workflow,   \* SwitchboardApp.active_workflow
  pending_execution, \* SwitchboardApp.pending_execution
  calls,         \* the calls of executor.execute: exec_id, command, environment
  running,       \* the executions that have not delivered Exit yet
  trace,         \* the launches and exits of executions so far, in order
  sh_pc,         \* command line: the position of orchestrate_execution
  env_vars,      \* command line: orchestrate_execution's env_vars map
  exec_cmd,      \* command line: the text handed to run or run_background
  shell,         \* command line: what the shell made of exec_cmd
  ssh_world,     \* authentication: what the agent, the key files and the server do
  conn,          \* authentication: the progress of SshRunEnvironment::connect
  lock,          \* store threads: the RwLock around CommandStore.data
  thr,           \* store threads: each thread's call, position, json and file
  seen,          \* store threads: what the reading thread's calls returned
  data0          \* store threads: the StoreData before the calls

execVars == <<impl, host, background, scriptStatus, pc, ret, events, killq,
              kills, proc, pipeOut, pipeErr, written, chan, rxAlive, failure,
              killObserved, killLive, killLate, killEarly,
                 script_file>>
uiVars == <<uiPos, is_running, exit_code, kill_tx, output_buffer, persisted>>
selVars == <<selHost, selLocal>>
concVars == <<workers, execution_rx>>
storeVars == <<data, file, tmp, st_pc, json, oldFile, saved, returned,
               faults, logs, snapshots>>
appVars == <<active_workflow, pending_execution, calls, running, trace>>
shVars == <<sh_pc, env_vars, exec_cmd, shell>>
authVars == <<ssh_world, conn>>
thrVars == <<lock, thr, seen, data0>>
otherVars == <<selVars, concVars, storeVars, appVars, shVars, authVars,
               thrVars>>
vars == <<execVars, uiVars, otherVars>>


\* the updates delivered so far that are Exit
ExitIndices == {i \in 1..Len(events) : events[i].t = "Exit"}
HasExit == ExitIndices # {}

(***************************************************************************)
(* The shell command lines.  A list is a sequence of and-chains separated  *)
(* by ';', an and-chain a sequence of simple commands joined by '&&', a    *)
(* pipeline a sequence of lists joined by '|'.                             *)
(***************************************************************************)
\* exit status of a simple command: the staged script ends with
\* scriptStatus; chmod, cd, the profile tests, export, rm -f and tee succeed
SimpleStatus(c) == IF c = "script" THEN scriptStatus ELSE 0

RECURSIVE AndChainStatus(_)
\* a && b && c: the status of the first command that fails, else of the last
AndChainStatus(chain) ==
  IF chain = <<>> THEN 0
  ELSE IF SimpleStatus(Head(chain)) # 0 THEN SimpleStatus(Head(chain))
  ELSE IF Len(chain) = 1 THEN 0
  ELSE AndChainStatus(Tail(chain))

\* a ; b ; c: the status of the last and-chain
ListStatus(list) == AndChainStatus(list[Len(list)])

\* a | b without pipefail: the status of the last stage
PipelineStatus(stages) == ListStatus(stages[Len(stages)])

\* executor.rs: /bin/bash <temp_script>
SshLocalLine == << <<"script">> >>

\* executor.rs: source_profiles && chmod +x s && cd w && bash s ; rm -f s
SshRemoteLine ==
  << <<"test_etc_profile", "dot_etc_profile">>,
     <<"test_bash_profile", "dot_bash_profile">>,
     <<"test_profile", "dot_profile">>,
     <<"test_bashrc", "dot_bashrc", "chmod", "cd", "script">>,
     <<"rm">> >>

\* orchestration.rs: exports chmod +x s && cd w && bash -l s; rm -f s
InnerCmd ==
  << <<"export">>, <<"export">>, <<"chmod", "cd", "script">>, <<"rm">> >>

\* orchestration.rs: /bin/bash -c 'inner' | tee log
ForegroundCmd == << InnerCmd, << <<"tee">> >> >>

(***************************************************************************)
(* Inputs                                                                  *)
(***************************************************************************)
ScriptStatuses == {0, 3}
CommandHosts == {None, Some(S_example), Some(S_LocalHost)}
ChunkNames == <<"c1", "c2", "c3", "c4">>

Idle ==
  /\ pc = "idle" /\ ret = "none" /\ events = <<>> /\ killq = 0 /\ kills = 0
  /\ proc = "none" /\ pipeOut = <<>> /\ pipeErr = <<>> /\ written = <<>>
  /\ chan = <<>> /\ rxAlive = FALSE /\ failure = "none"
  /\ killObserved = FALSE /\ killLive = FALSE /\ killLate = FALSE
  /\ killEarly = FALSE
  /\ script_file = "absent"
  /\ uiPos = 0 /\ is_running = FALSE /\ exit_code = None /\ kill_tx = FALSE
  /\ output_buffer = <<>> /\ persisted = <<>>

(***************************************************************************)
(* The store: StoreData, its serialization and the files                   *)
(***************************************************************************)
\* StoreData::default()
EmptyData ==
  [ commands |-> <<>>, workflows |-> <<>>, hosts |-> <<>>,
    executions |-> <<>> ]

\* file contents: no file, a store document, a partly written document,
\* text that is not a store document
NoFile == [kind |-> "absent"]
Partial == [kind |-> "partial"]
Garbage == [kind |-> "garbage"]
\* a file that read_to_string cannot read (not UTF-8, no permission)
Unreadable == [kind |-> "unreadable"]

\* serde of Command: source_path is #[serde(skip)]
SerializeCommand(c) == [id |-> c.id, name |-> c.name]
DeserializeCommand(j) == [id |-> j.id, name |-> j.name, source_path |-> None]

\* a serialization that leaves the executions out of the document
to_string_prettyNoExecutions(d) ==
  [ kind |-> "doc",
    commands |-> [i \in 1..Len(d.commands) |-> SerializeCommand(d.commands[i])],
    workflows |-> d.workflows,
    hosts |-> d.hosts,
    executions |-> None ]

\* serde_json::to_string_pretty(&StoreData)
to_string_pretty(d) ==
  [ kind |-> "doc",
    commands |-> [i \in 1..Len(d.commands) |-> SerializeCommand(d.commands[i])],
    workflows |-> d.workflows,
    hosts |-> d.hosts,
    executions |-> Some(d.executions) ]

\* serde_json::from_str::<StoreData>: executions is #[serde(default)]
from_str(text) ==
  IF text.kind # "doc" THEN [ok |-> FALSE, data |-> EmptyData]
  ELSE [ ok |-> TRUE,
         data |->
           [ commands |-> [i \in 1..Len(text.commands) |->
                             DeserializeCommand(text.commands[i])],
             workflows |-> text.workflows,
             hosts |-> text.hosts,
             executions |-> IF text.executions = None THEN <<>>
                            ELSE text.executions[1] ] ]

\* app.rs 782: format!("{}.log.gz", state.id)
LogFile(id) == <<id, ".log.gz">>
ExecutionIds == {"e1", "e2"}
LogNames == {LogFile(id) : id \in ExecutionIds}

\* GzEncoder over the bytes of the text, GzDecoder and read_to_string
Gz(text) == [kind |-> "gz", text |-> text]
Gunzip(blob) == IF blob.kind = "gz" THEN Some(blob.text) ELSE None

\* a store on a path where no file exists yet, no call made
StoreIdle ==
  /\ data = EmptyData /\ file = NoFile /\ tmp = NoFile
  /\ st_pc = "idle" /\ json = NoFile /\ oldFile = NoFile
  /\ saved = "none" /\ returned = <<>> /\ faults = 0
  /\ logs = [n \in LogNames |-> NoFile]
  /\ snapshots = {}

\* app.rs 195-205: no workflow is active, no prompt is open, nothing was run
AppIdle ==
  /\ active_workflow = None
  /\ pending_execution = None
  /\ calls = <<>>
  /\ running = {}
  /\ trace = <<>>

\* no command line is being built
ShIdle ==
  /\ sh_pc = "idle"
  /\ env_vars = <<>>
  /\ exec_cmd = <<>>
  /\ shell = None

\* ssh.rs 30: the private-key files, in the order they are tried
key_types == <<"id_ed25519", "id_ecdsa", "id_rsa", "id_dsa">>

\* what an authentication method does when tried: the call fails, the call
\* succeeds and the session is authenticated, or the call succeeds and the
\* session is not yet authenticated
AuthOutcomes == {"Err", "authenticated", "partial"}

\* no connection is being made
NoWorld ==
  [ agent |-> "Err", home |-> FALSE, exists |-> {},
    key |-> [k \in {} |-> "Err"] ]
NoConn ==
  [ pc |-> "idle", i |-> 1, tried |-> <<>>, authenticated |-> FALSE,
    result |-> "none" ]
AuthIdle ==
  /\ ssh_world = NoWorld
  /\ conn = NoConn

\* no thread is calling the store
Unlocked == [writer |-> None, readers |-> {}]
ThrIdle ==
  /\ lock = Unlocked
  /\ thr = <<>>
  /\ seen = <<>>
  /\ data0 = EmptyData

\* no execution has been launched
Execs == 1..NumExecs
IdleWorker ==
  [ pc |-> "idle", exec_id |-> 0, proc |-> "none", pipeOut |-> <<>>,
    written |-> 0, killq |-> 0, forever |-> FALSE ]
ConcIdle ==
  /\ workers = [e \in Execs |-> IdleWorker]
  /\ execution_rx = <<>>

Init ==
  /\ impl \in {"SshExecutor", "Executor"}
  /\ host \in {DummyHost(h, None) : h \in CommandHosts}
  /\ background \in (IF impl = "Executor" THEN BOOLEAN ELSE {FALSE})
  /\ scriptStatus \in ScriptStatuses
  /\ Idle
  /\ selHost = DummyHost(None, None) /\ selLocal = "none"
  /\ ConcIdle
  /\ StoreIdle
  /\ AppIdle
  /\ ShIdle
  /\ AuthIdle
  /\ ThrIdle

Deliver(updates) == events' = events \o updates

\* the worker returns after reporting a failure: Stderr, then Exit(-1)
Fail(kind, text) ==
  /\ failure' = kind
  /\ Deliver(<<Stderr(<<text>>), Exit(-1)>>)
  /\ pc' = "done"

(***************************************************************************)
(* SwitchboardApp::perform_execution and the return of execute             *)
(***************************************************************************)
\* execute that checks connectivity before it returns (ConnectionFailed)
PerformExecutionConnectsFirst ==
  /\ pc = "idle"
  /\ \/ /\ pc' = "spawned"
        /\ ret' = "Ok"
        /\ is_running' = TRUE
        /\ kill_tx' = TRUE
     \/ /\ ~SshExecutorIsLocal(host)
        /\ pc' = "done"
        /\ ret' = "ConnectionFailed"
        /\ UNCHANGED <<is_running, kill_tx>>
  /\ UNCHANGED <<impl, host, background, scriptStatus, events, killq, kills,
                 proc, pipeOut, pipeErr, written, chan, rxAlive, failure,
                 killObserved, killLive, killLate, killEarly,
                 script_file>>
  /\ UNCHANGED <<uiPos, exit_code, output_buffer, persisted>>
  /\ UNCHANGED otherVars

\* app.rs: the ExecutionState is pushed, execute spawns the worker, returns
PerformExecution ==
  /\ pc = "idle"
  /\ pc' = "spawned"
  /\ ret' = "Ok"
  /\ is_running' = TRUE
  /\ kill_tx' = TRUE
  /\ UNCHANGED <<impl, host, background, scriptStatus, events, killq, kills,
                 proc, pipeOut, pipeErr, written, chan, rxAlive, failure,
                 killObserved, killLive, killLate, killEarly,
                 script_file>>
  /\ UNCHANGED <<uiPos, exit_code, output_buffer, persisted>>
  /\ UNCHANGED otherVars

(***************************************************************************)
(* The child process (local) or the remote command                         *)
(***************************************************************************)
ChildWrite ==
  /\ proc = "running"
  /\ Len(written) < MaxChunks
  /\ \E stream \in {"out", "err"} :
       LET chunk == ChunkNames[Len(written) + 1] IN
       /\ written' = Append(written, chunk)
       /\ pipeOut' = IF stream = "out" THEN Append(pipeOut, chunk) ELSE pipeOut
       /\ pipeErr' = IF stream = "err" THEN Append(pipeErr, chunk) ELSE pipeErr
  /\ UNCHANGED <<impl, host, background, scriptStatus, pc, ret, events, killq,
                 kills, proc, chan, rxAlive, failure, killObserved, killLive,
                 killLate, killEarly,
                 script_file>>
  /\ UNCHANGED uiVars
  /\ UNCHANGED otherVars

\* the command line ran to its end; that of orchestrate_execution ends in
\* rm -f script_path (orchestration.rs 29-32)
ChildExit ==
  /\ proc = "running"
  /\ proc' = "exited"
  /\ script_file' = IF impl = "Executor" THEN "absent" ELSE script_file
  /\ UNCHANGED <<impl, host, background, scriptStatus, pc, ret, events, killq,
                 kills, pipeOut, pipeErr, written, chan, rxAlive, failure,
                 killObserved, killLive, killLate, killEarly>>
  /\ UNCHANGED uiVars
  /\ UNCHANGED otherVars

\* everything a worker step leaves alone besides pc, events, the staged
\* script and what it names
StageFrame ==
  /\ UNCHANGED <<impl, host, background, scriptStatus, ret, kills, written,
                 killLive, killLate, killEarly>>
  /\ UNCHANGED uiVars
  /\ UNCHANGED otherVars

\* everything a worker step leaves alone besides pc, events and what it names
WorkerFrame ==
  /\ StageFrame
  /\ UNCHANGED script_file

(***************************************************************************)
(* SshExecutor::execute, executor.rs                                       *)
(***************************************************************************)
\* the worker picks the target without reporting Started
SshStartedNotReported ==
  /\ pc = "spawned" /\ impl = "SshExecutor"
  /\ pc' = IF SshExecutorIsLocal(host) THEN "sl_stage" ELSE "sr_connect"
  /\ UNCHANGED <<events, killq, proc, pipeOut, pipeErr, chan, rxAlive,
                 failure, killObserved>>
  /\ WorkerFrame

\* executor.rs 49-57: the worker starts, reports Started, picks the target
SshStarted ==
  /\ pc = "spawned" /\ impl = "SshExecutor"
  /\ Deliver(<<Started("cmd_id")>>)
  /\ pc' = IF SshExecutorIsLocal(host) THEN "sl_stage" ELSE "sr_connect"
  /\ UNCHANGED <<killq, proc, pipeOut, pipeErr, chan, rxAlive, failure,
                 killObserved>>
  /\ WorkerFrame

\* executor.rs 58-86: the script is written to a temporary file
SshLocalStage ==
  /\ pc = "sl_stage"
  /\ \/ Fail("stage", "Failed to create temp file")
     \/ Fail("stage", "Failed to write script")
     \/ /\ pc' = "sl_spawn"
        /\ UNCHANGED <<events, failure>>
  /\ UNCHANGED <<killq, proc, pipeOut, pipeErr, chan, rxAlive, killObserved>>
  /\ WorkerFrame

\* a spawn failure is reported on Stderr but the worker returns without Exit
SshLocalSpawnNoExit ==
  /\ pc = "sl_spawn"
  /\ \/ /\ failure' = "spawn"
        /\ Deliver(<<Stderr(<<"Failed to spawn local command">>)>>)
        /\ pc' = "done"
        /\ UNCHANGED proc
     \/ /\ proc' = "running"
        /\ pc' = "sl_poll"
        /\ UNCHANGED <<events, failure>>
  /\ UNCHANGED <<killq, pipeOut, pipeErr, chan, rxAlive, killObserved>>
  /\ WorkerFrame

\* executor.rs 88-142: /bin/bash is spawned, the two readers are started
SshLocalSpawn ==
  /\ pc = "sl_spawn"
  /\ \/ Fail("spawn", "Failed to spawn local command") /\ UNCHANGED proc
     \/ /\ proc' = "running"
        /\ pc' = "sl_poll"
        /\ UNCHANGED <<events, failure>>
  /\ UNCHANGED <<killq, pipeOut, pipeErr, chan, rxAlive, killObserved>>
  /\ WorkerFrame

\* executor.rs 118-129: the stdout reader hands what it read to on_update
SshLocalReadStdout ==
  /\ impl = "SshExecutor" /\ SshExecutorIsLocal(host)
  /\ \E n \in 1..Len(pipeOut) :
       /\ Deliver(<<Stdout(SubSeq(pipeOut, 1, n))>>)
       /\ pipeOut' = SubSeq(pipeOut, n + 1, Len(pipeOut))
  /\ UNCHANGED <<pc, killq, proc, pipeErr, chan, rxAlive, failure,
                 killObserved>>
  /\ WorkerFrame

\* executor.rs 131-142: the stderr reader hands what it read to on_update
SshLocalReadStderr ==
  /\ impl = "SshExecutor" /\ SshExecutorIsLocal(host)
  /\ \E n \in 1..Len(pipeErr) :
       /\ Deliver(<<Stderr(SubSeq(pipeErr, 1, n))>>)
       /\ pipeErr' = SubSeq(pipeErr, n + 1, Len(pipeErr))
  /\ UNCHANGED <<pc, killq, proc, pipeOut, chan, rxAlive, failure,
                 killObserved>>
  /\ WorkerFrame

\* executor.rs 145-148: kill_rx.try_recv at the top of the loop
SshLocalPoll ==
  /\ pc = "sl_poll"
  /\ IF killq > 0
       THEN /\ killq' = killq - 1
            /\ killObserved' = TRUE
            /\ Deliver(<<Stderr(<<KillNotice>>)>>)
            /\ pc' = "sl_kill"
       ELSE /\ pc' = "sl_wait"
            /\ UNCHANGED <<killq, killObserved, events>>
  /\ UNCHANGED <<proc, pipeOut, pipeErr, chan, rxAlive, failure>>
  /\ WorkerFrame

\* executor.rs 149-153: child.kill, Exit(-1), child.wait, return
SshLocalKill ==
  /\ pc = "sl_kill"
  /\ proc' = IF proc = "running" THEN "killed" ELSE proc
  /\ Deliver(<<Exit(-1)>>)
  /\ pc' = "done"
  /\ UNCHANGED <<killq, pipeOut, pipeErr, chan, rxAlive, failure,
                 killObserved>>
  /\ WorkerFrame

\* child.try_wait without the break after Exit: the loop goes on
SshLocalWaitNoBreak ==
  /\ pc = "sl_wait"
  /\ \/ /\ proc = "exited"
        /\ Deliver(<<Exit(ListStatus(SshLocalLine))>>)
        /\ pc' = "sl_poll"
        /\ UNCHANGED failure
     \/ /\ proc = "running"
        /\ pc' = "sl_poll"
        /\ UNCHANGED <<events, failure>>
     \/ /\ failure' = "wait"
        /\ Deliver(<<Exit(-1)>>)
        /\ pc' = "done"
  /\ UNCHANGED <<killq, proc, pipeOut, pipeErr, chan, rxAlive, killObserved>>
  /\ WorkerFrame

\* executor.rs 156-172: child.try_wait
SshLocalWait ==
  /\ pc = "sl_wait"
  /\ \/ /\ proc = "exited"
        /\ Deliver(<<Exit(ListStatus(SshLocalLine))>>)
        /\ pc' = "done"
        /\ UNCHANGED failure
     \/ /\ proc = "running"
        /\ pc' = "sl_poll"
        /\ UNCHANGED <<events, failure>>
     \/ /\ failure' = "wait"
        /\ Deliver(<<Exit(-1)>>)
        /\ pc' = "done"
  /\ UNCHANGED <<killq, proc, pipeOut, pipeErr, chan, rxAlive, killObserved>>
  /\ WorkerFrame


\* executor.rs 175-182: TcpStream::connect
SshConnect ==
  /\ pc = "sr_connect"
  /\ \/ Fail("connect", "Failed to connect")
     \/ /\ pc' = "sr_handshake"
        /\ UNCHANGED <<events, failure>>
  /\ UNCHANGED <<killq, proc, pipeOut, pipeErr, chan, rxAlive, killObserved>>
  /\ WorkerFrame

\* executor.rs 184-190: Session::new, handshake
SshHandshake ==
  /\ pc = "sr_handshake"
  /\ \/ Fail("handshake", "Handshake failed")
     \/ /\ pc' = "sr_auth"
        /\ UNCHANGED <<events, failure>>
  /\ UNCHANGED <<killq, proc, pipeOut, pipeErr, chan, rxAlive, killObserved>>
  /\ WorkerFrame

\* the agent message is printed although the session is not authenticated
SshAuthenticateAnnounceEarly ==
  /\ pc = "sr_auth"
  /\ \/ /\ Deliver(<<Stdout(<<"Authenticated via SSH agent">>)>>)
        /\ pc' = "sr_upload"
        /\ UNCHANGED failure
     \/ /\ pc' = "sr_upload"
        /\ UNCHANGED <<events, failure>>
     \/ /\ failure' = "auth"
        /\ Deliver(<<Stdout(<<"Authenticated via SSH agent">>),
                     Stderr(<<"Authentication failed">>), Exit(-1)>>)
        /\ pc' = "done"
  /\ UNCHANGED <<killq, proc, pipeOut, pipeErr, chan, rxAlive, killObserved>>
  /\ WorkerFrame

\* executor.rs 192-237: agent, then the key files, then the failure report
SshAuthenticate ==
  /\ pc = "sr_auth"
  /\ \/ /\ Deliver(<<Stdout(<<"Authenticated via SSH agent">>)>>)
        /\ pc' = "sr_upload"
        /\ UNCHANGED failure
     \/ /\ pc' = "sr_upload"
        /\ UNCHANGED <<events, failure>>
     \/ Fail("auth", "Authentication failed")
  /\ UNCHANGED <<killq, proc, pipeOut, pipeErr, chan, rxAlive, killObserved>>
  /\ WorkerFrame

\* executor.rs 240-283: the script is uploaded over SFTP
SshUpload ==
  /\ pc = "sr_upload"
  /\ \/ Fail("upload", "Failed to start SFTP")
     \/ Fail("upload", "Failed to create temp file")
     \/ Fail("upload", "Failed to write script")
     \/ /\ Deliver(<<Stdout(<<"Script uploaded">>)>>)
        /\ pc' = "sr_channel"
        /\ UNCHANGED failure
  /\ UNCHANGED <<killq, proc, pipeOut, pipeErr, chan, rxAlive, killObserved>>
  /\ WorkerFrame

\* executor.rs 300-326: channel_session, exec
SshChannelExec ==
  /\ pc = "sr_channel"
  /\ \/ Fail("channel", "Failed to open channel") /\ UNCHANGED proc
     \/ Fail("channel", "Failed to exec") /\ UNCHANGED proc
     \/ /\ proc' = "running"
        /\ pc' = "sr_poll"
        /\ UNCHANGED <<events, failure>>
  /\ UNCHANGED <<killq, pipeOut, pipeErr, chan, rxAlive, killObserved>>
  /\ WorkerFrame

\* executor.rs 333-355: kill_rx.try_recv; on a signal ETX, sleep, close, return
SshRemotePoll ==
  /\ pc = "sr_poll"
  /\ IF killq > 0
       THEN /\ killq' = killq - 1
            /\ killObserved' = TRUE
            /\ Deliver(<<Stderr(<<KillNotice>>), Stderr(<<TerminatedNotice>>),
                         Exit(-1)>>)
            /\ proc' \in {proc, IF proc = "running" THEN "killed" ELSE proc}
            /\ pc' = "done"
       ELSE /\ pc' = "sr_rdout"
            /\ UNCHANGED <<killq, killObserved, events, proc>>
  /\ UNCHANGED <<pipeOut, pipeErr, chan, rxAlive, failure>>
  /\ WorkerFrame

\* executor.rs 358-364: channel.read on a blocking session
SshRemoteReadStdout ==
  /\ pc = "sr_rdout"
  /\ \/ \E n \in 1..Len(pipeOut) :
          /\ Deliver(<<Stdout(SubSeq(pipeOut, 1, n))>>)
          /\ pipeOut' = SubSeq(pipeOut, n + 1, Len(pipeOut))
     \/ /\ pipeOut = <<>> /\ proc # "running"
        /\ UNCHANGED <<events, pipeOut>>
  /\ pc' = "sr_rderr"
  /\ UNCHANGED <<killq, proc, pipeErr, chan, rxAlive, failure, killObserved>>
  /\ WorkerFrame

\* executor.rs 367-373: channel.stderr().read on a blocking session
SshRemoteReadStderr ==
  /\ pc = "sr_rderr"
  /\ \/ \E n \in 1..Len(pipeErr) :
          /\ Deliver(<<Stderr(SubSeq(pipeErr, 1, n))>>)
          /\ pipeErr' = SubSeq(pipeErr, n + 1, Len(pipeErr))
     \/ /\ pipeErr = <<>> /\ proc # "running"
        /\ UNCHANGED <<events, pipeErr>>
  /\ pc' = "sr_eof"
  /\ UNCHANGED <<killq, proc, pipeOut, chan, rxAlive, failure, killObserved>>
  /\ WorkerFrame

\* executor.rs 376-386: channel.eof, wait_close, exit_status
SshRemoteEof ==
  /\ pc = "sr_eof"
  /\ IF proc # "running" /\ pipeOut = <<>> /\ pipeErr = <<>>
       THEN /\ Deliver(<<Exit(ListStatus(SshRemoteLine))>>)
            /\ pc' = "done"
       ELSE /\ pc' = "sr_poll"
            /\ UNCHANGED events
  /\ UNCHANGED <<killq, proc, pipeOut, pipeErr, chan, rxAlive, failure,
                 killObserved>>
  /\ WorkerFrame

(***************************************************************************)
(* SwitchboardApp::update, app.rs                                          *)
(***************************************************************************)
\* store.rs add_execution: the record with the same id is replaced
AddExecution(history, result) ==
  Append(SelectSeq(history, LAMBDA e : e.id # result.id), result)

\* every finished execution is recorded as Completed
ApplyUpdateAlwaysCompleted(st, u) ==
  CASE u.t = "Started" -> [st EXCEPT !.is_running = TRUE]
    [] u.t \in {"Stdout", "Stderr"} ->
         [st EXCEPT !.output_buffer = st.output_buffer \o u.s]
    [] u.t = "Exit" ->
         [st EXCEPT !.is_running = FALSE,
                    !.exit_code = Some(u.c),
                    !.kill_tx = FALSE,
                    !.persisted = AddExecution(st.persisted,
                       [ id |-> "exec_id",
                         exit_code |-> Some(u.c),
                         status |-> "Completed",
                         log |-> st.output_buffer ])]

\* app.rs 742-792: one update applied to the ExecutionState
ApplyUpdate(st, u) ==
  CASE u.t = "Started" -> [st EXCEPT !.is_running = TRUE]
    [] u.t \in {"Stdout", "Stderr"} ->
         [st EXCEPT !.output_buffer = st.output_buffer \o u.s]
    [] u.t = "Exit" ->
         [st EXCEPT !.is_running = FALSE,
                    !.exit_code = Some(u.c),
                    !.kill_tx = FALSE,
                    !.persisted = AddExecution(st.persisted,
                       [ id |-> "exec_id",
                         exit_code |-> Some(u.c),
                         status |-> IF u.c = 0 THEN "Completed" ELSE "Failed",
                         log |-> st.output_buffer ])]

RECURSIVE ApplyUpdates(_, _)
ApplyUpdates(st, us) ==
  IF us = <<>> THEN st ELSE ApplyUpdates(ApplyUpdate(st, Head(us)), Tail(us))

\* app.rs 740-794: while let Ok(..) = execution_rx.try_recv()
UiPollUpdates ==
  /\ uiPos < Len(events)
  /\ LET st == ApplyUpdates(
                 [ is_running |-> is_running, exit_code |-> exit_code,
                   kill_tx |-> kill_tx, output_buffer |-> output_buffer,
                   persisted |-> persisted ],
                 SubSeq(events, uiPos + 1, Len(events)))
     IN /\ is_running' = st.is_running
        /\ exit_code' = st.exit_code
        /\ kill_tx' = st.kill_tx
        /\ output_buffer' = st.output_buffer
        /\ persisted' = st.persisted
  /\ uiPos' = Len(events)
  /\ UNCHANGED execVars
  /\ UNCHANGED otherVars

\* app.rs 1251-1260: the Kill button of a running execution
UiKill ==
  /\ is_running /\ kill_tx
  /\ kills < MaxKills
  /\ kills' = kills + 1
  /\ killq' = IF pc # "done" THEN killq + 1 ELSE killq
  /\ killLive' = (killLive \/ (proc = "running" /\ ~HasExit))
  /\ killLate' = (killLate \/ HasExit)
  /\ killEarly' = (killEarly \/ proc = "none")
  /\ UNCHANGED <<impl, host, background, scriptStatus, pc, ret, events, proc,
                 pipeOut, pipeErr, written, chan, rxAlive, failure,
                 killObserved, script_file>>
  /\ UNCHANGED uiVars
  /\ UNCHANGED otherVars

(***************************************************************************)
(* Executor::execute: the worker around orchestrate_execution              *)
(***************************************************************************)
LoopbackAliases == {S_local, S_localhost, S_loopback}

\* local execution iff the name or the hostname is a loopback alias
ExecutorIsLocal(h) ==
  \/ to_lowercase(h.name) \in LoopbackAliases
  \/ to_lowercase(h.hostname) \in LoopbackAliases

\* the worker starts, reports Started and selects the run environment
ExecutorStarted ==
  /\ pc = "spawned" /\ impl = "Executor"
  /\ Deliver(<<Started("exec_id")>>)
  /\ pc' = IF ExecutorIsLocal(host) THEN "o_write" ELSE "o_connect"
  /\ UNCHANGED <<killq, proc, pipeOut, pipeErr, chan, rxAlive, failure,
                 killObserved>>
  /\ WorkerFrame

\* ssh.rs 14-63: what SshRunEnvironment::connect returns
ConnectResults == {"Ok", "connect", "session", "handshake", "auth"}

\* the remote-shell environment is constructed
ExecutorConnect ==
  /\ pc = "o_connect"
  /\ \E r \in ConnectResults :
       IF r = "Ok"
         THEN pc' = "o_write" /\ UNCHANGED failure
         ELSE pc' = "o_err" /\ failure' = r
  /\ UNCHANGED <<events, killq, proc, pipeOut, pipeErr, chan, rxAlive,
                 killObserved>>
  /\ WorkerFrame

\* an error of the run is reported as Stderr followed by Exit(-1)
ExecutorReportError ==
  /\ pc = "o_err"
  /\ Deliver(<<Stderr(<<failure>>), Exit(-1)>>)
  /\ pc' = "done"
  /\ UNCHANGED <<killq, proc, pipeOut, pipeErr, chan, rxAlive, failure,
                 killObserved>>
  /\ WorkerFrame

(***************************************************************************)
(* orchestrate_execution, orchestration.rs                                 *)
(***************************************************************************)
\* orchestration.rs 14-20: env.write_file(script_path, script)?; a write
\* that fails may have created the file (local.rs 16-20, ssh.rs 67-82)
OrchWriteFile ==
  /\ pc = "o_write"
  /\ \/ /\ pc' = "o_err" /\ failure' = "stage"
        /\ script_file' \in {"absent", "staged"}
     \/ /\ pc' = "o_preamble" /\ UNCHANGED failure
        /\ script_file' = "staged"
  /\ UNCHANGED <<events, killq, proc, pipeOut, pipeErr, chan, rxAlive,
                 killObserved>>
  /\ StageFrame

\* local.rs 70-72: child.kill() ends the /bin/bash that was spawned, not the
\* shell and the script it started; they run on, and when the script has
\* ended the rm -f of their command line removes the staged script
LeftoverFinish ==
  /\ impl = "Executor" /\ proc = "killed"
  /\ script_file = "staged"
  /\ script_file' = "absent"
  /\ UNCHANGED <<impl, host, background, scriptStatus, pc, ret, events, killq,
                 kills, proc, pipeOut, pipeErr, written, chan, rxAlive,
                 failure, killObserved, killLive, killLate, killEarly>>
  /\ UNCHANGED uiVars
  /\ UNCHANGED otherVars

\* ssh.rs 161-169, local.rs 110: emit_preamble
Preamble(h) ==
  IF ExecutorIsLocal(h) THEN <<>>
  ELSE <<Stdout(<<"Logging to /tmp">>), Stdout(<<"ssh tail -f log">>)>>

\* orchestration.rs 39-41: the preamble, then background or foreground
OrchPreamble ==
  /\ pc = "o_preamble"
  /\ Deliver(Preamble(host))
  /\ pc' = IF background THEN "o_background"
           ELSE IF ExecutorIsLocal(host) THEN "ol_spawn" ELSE "or_channel"
  /\ UNCHANGED <<killq, proc, pipeOut, pipeErr, chan, rxAlive, failure,
                 killObserved>>
  /\ WorkerFrame

\* a background launch that looks at the kill channel first
OrchBackgroundChecksKill ==
  /\ pc = "o_background"
  /\ \/ pc' = "o_err" /\ failure' = "spawn" /\ UNCHANGED <<events, proc>>
     \/ /\ proc' = "detached"
        /\ Deliver(<<Stdout(<<"Background process started">>),
                     Exit(IF killq > 0 THEN -1 ELSE 0)>>)
        /\ pc' = "done"
        /\ UNCHANGED failure
  /\ UNCHANGED <<killq, pipeOut, pipeErr, chan, rxAlive, killObserved>>
  /\ WorkerFrame

\* orchestration.rs 41-48 with run_background of local.rs 96-108, ssh.rs 143-159
OrchBackground ==
  /\ pc = "o_background"
  /\ \/ pc' = "o_err" /\ failure' = "spawn" /\ UNCHANGED <<events, proc>>
     \/ /\ proc' = "detached"
        /\ Deliver(<<Stdout(<<"Background process started">>), Exit(0)>>)
        /\ pc' = "done"
        /\ UNCHANGED failure
  /\ UNCHANGED <<killq, pipeOut, pipeErr, chan, rxAlive, killObserved>>
  /\ WorkerFrame

\* orchestration.rs 34-37: map_chunk
MapChunk(chunk) ==
  IF chunk.stream = "out" THEN Stdout(chunk.text) ELSE Stderr(chunk.text)

MapChunks(chunks) == [i \in 1..Len(chunks) |-> MapChunk(chunks[i])]

(***************************************************************************)
(* LocalRunEnvironment::run, run_environment/local.rs                      *)
(***************************************************************************)
\* local.rs 29-40: spawn, the channel, the two readers
LocalSpawn ==
  /\ pc = "ol_spawn"
  /\ \/ pc' = "o_err" /\ failure' = "spawn" /\ UNCHANGED <<proc, rxAlive>>
     \/ /\ proc' = "running"
        /\ rxAlive' = TRUE
        /\ pc' = "ol_poll"
        /\ UNCHANGED failure
  /\ UNCHANGED <<events, killq, pipeOut, pipeErr, chan, killObserved>>
  /\ WorkerFrame

\* local.rs 42-53: the stdout reader sends what it read into the channel
LocalReadStdout ==
  /\ impl = "Executor" /\ ExecutorIsLocal(host)
  /\ \E n \in 1..Len(pipeOut) :
       /\ chan' = IF rxAlive
                    THEN Append(chan, [stream |-> "out",
                                       text |-> SubSeq(pipeOut, 1, n)])
                    ELSE chan
       /\ pipeOut' = SubSeq(pipeOut, n + 1, Len(pipeOut))
  /\ UNCHANGED <<pc, events, killq, proc, pipeErr, rxAlive, failure,
                 killObserved>>
  /\ WorkerFrame

\* local.rs 55-66: the stderr reader sends what it read into the channel
LocalReadStderr ==
  /\ impl = "Executor" /\ ExecutorIsLocal(host)
  /\ \E n \in 1..Len(pipeErr) :
       /\ chan' = IF rxAlive
                    THEN Append(chan, [stream |-> "err",
                                       text |-> SubSeq(pipeErr, 1, n)])
                    ELSE chan
       /\ pipeErr' = SubSeq(pipeErr, n + 1, Len(pipeErr))
  /\ UNCHANGED <<pc, events, killq, proc, pipeOut, rxAlive, failure,
                 killObserved>>
  /\ WorkerFrame

\* local.rs 68-74 and orchestration.rs 52-53: the kill check of the loop
LocalPoll ==
  /\ pc = "ol_poll"
  /\ IF killq > 0
       THEN /\ killq' = killq - 1
            /\ killObserved' = TRUE
            /\ proc' = IF proc = "running" THEN "killed" ELSE proc
            /\ Deliver(<<Stderr(<<KillNotice>>), Exit(-1)>>)
            /\ rxAlive' = FALSE
            /\ chan' = <<>>
            /\ pc' = "done"
       ELSE /\ pc' = "ol_drain"
            /\ UNCHANGED <<killq, killObserved, proc, events, rxAlive, chan>>
  /\ UNCHANGED <<pipeOut, pipeErr, failure>>
  /\ WorkerFrame

\* local.rs 76-78: while let Ok(chunk) = out_rx.try_recv()
LocalDrain ==
  /\ pc = "ol_drain"
  /\ Deliver(MapChunks(chan))
  /\ chan' = <<>>
  /\ pc' = "ol_wait"
  /\ UNCHANGED <<killq, proc, pipeOut, pipeErr, rxAlive, failure,
                 killObserved>>
  /\ WorkerFrame

\* local.rs 80-92 and orchestration.rs 52-53: child.try_wait
LocalWait ==
  /\ pc = "ol_wait"
  /\ \/ /\ proc = "exited"
        /\ Deliver(MapChunks(chan) \o <<Exit(PipelineStatus(ForegroundCmd))>>)
        /\ chan' = <<>>
        /\ rxAlive' = FALSE
        /\ pc' = "done"
        /\ UNCHANGED failure
     \/ /\ proc = "running"
        /\ pc' = "ol_poll"
        /\ UNCHANGED <<events, chan, rxAlive, failure>>
     \/ /\ failure' = "wait"
        /\ Deliver(<<Exit(-1)>>)
        /\ chan' = <<>>
        /\ rxAlive' = FALSE
        /\ pc' = "done"
  /\ UNCHANGED <<killq, proc, pipeOut, pipeErr, killObserved>>
  /\ WorkerFrame

(***************************************************************************)
(* SshRunEnvironment::run, run_environment/ssh.rs                          *)
(***************************************************************************)
\* ssh.rs 90-97: channel_session, exec
RemoteChannelExec ==
  /\ pc = "or_channel"
  /\ \/ pc' = "o_err" /\ failure' = "channel" /\ UNCHANGED proc
     \/ /\ proc' = "running"
        /\ pc' = "or_poll"
        /\ UNCHANGED failure
  /\ UNCHANGED <<events, killq, pipeOut, pipeErr, chan, rxAlive,
                 killObserved>>
  /\ WorkerFrame

\* ssh.rs 102-114 and orchestration.rs 52-53: the kill check of the loop
RemotePoll ==
  /\ pc = "or_poll"
  /\ IF killq > 0
       THEN /\ killq' = killq - 1
            /\ killObserved' = TRUE
            /\ Deliver(<<Stderr(<<KillNotice>>), Stderr(<<TerminatedNotice>>),
                         Exit(-1)>>)
            /\ proc' \in {proc, IF proc = "running" THEN "killed" ELSE proc}
            /\ pc' = "done"
       ELSE /\ pc' = "or_rdout"
            /\ UNCHANGED <<killq, killObserved, events, proc>>
  /\ UNCHANGED <<pipeOut, pipeErr, chan, rxAlive, failure>>
  /\ WorkerFrame

\* ssh.rs 116-122: channel.read on a blocking session
RemoteReadStdout ==
  /\ pc = "or_rdout"
  /\ \/ \E n \in 1..Len(pipeOut) :
          /\ Deliver(<<Stdout(SubSeq(pipeOut, 1, n))>>)
          /\ pipeOut' = SubSeq(pipeOut, n + 1, Len(pipeOut))
     \/ /\ pipeOut = <<>> /\ proc # "running"
        /\ UNCHANGED <<events, pipeOut>>
  /\ pc' = "or_rderr"
  /\ UNCHANGED <<killq, proc, pipeErr, chan, rxAlive, failure, killObserved>>
  /\ WorkerFrame

\* ssh.rs 124-130: channel.stderr().read on a blocking session
RemoteReadStderr ==
  /\ pc = "or_rderr"
  /\ \/ \E n \in 1..Len(pipeErr) :
          /\ Deliver(<<Stderr(SubSeq(pipeErr, 1, n))>>)
          /\ pipeErr' = SubSeq(pipeErr, n + 1, Len(pipeErr))
     \/ /\ pipeErr = <<>> /\ proc # "running"
        /\ UNCHANGED <<events, pipeErr>>
  /\ pc' = "or_eof"
  /\ UNCHANGED <<killq, proc, pipeOut, chan, rxAlive, failure, killObserved>>
  /\ WorkerFrame

\* ssh.rs 132-140 and orchestration.rs 52-53: channel.eof, exit_status
RemoteEof ==
  /\ pc = "or_eof"
  /\ IF proc # "running" /\ pipeOut = <<>> /\ pipeErr = <<>>
       THEN /\ Deliver(<<Exit(PipelineStatus(ForegroundCmd))>>)
            /\ pc' = "done"
       ELSE /\ pc' = "or_poll"
            /\ UNCHANGED events
  /\ UNCHANGED <<killq, proc, pipeOut, pipeErr, chan, rxAlive, failure,
                 killObserved>>
  /\ WorkerFrame

ExecutorNext ==
  \/ LeftoverFinish
  \/ ExecutorStarted
  \/ ExecutorConnect
  \/ ExecutorReportError
  \/ OrchWriteFile
  \/ OrchPreamble
  \/ OrchBackground
  \/ LocalSpawn
  \/ LocalReadStdout
  \/ LocalReadStderr
  \/ LocalPoll
  \/ LocalDrain
  \/ LocalWait
  \/ RemoteChannelExec
  \/ RemotePoll
  \/ RemoteReadStdout
  \/ RemoteReadStderr
  \/ RemoteEof

SshExecutorNext ==
  \/ SshStarted
  \/ SshLocalStage
  \/ SshLocalSpawn
  \/ SshLocalReadStdout
  \/ SshLocalReadStderr
  \/ SshLocalPoll
  \/ SshLocalKill
  \/ SshLocalWait
  \/ SshConnect
  \/ SshHandshake
  \/ SshAuthenticate
  \/ SshUpload
  \/ SshChannelExec
  \/ SshRemotePoll
  \/ SshRemoteReadStdout
  \/ SshRemoteReadStderr
  \/ SshRemoteEof

Next ==
  \/ PerformExecution
  \/ ChildWrite
  \/ ChildExit
  \/ SshExecutorNext
  \/ ExecutorNext
  \/ UiPollUpdates
  \/ UiKill

Spec == Init /\ [][Next]_vars


(***************************************************************************)
(* Host selection on its own: every combination of name, hostname,         *)
(* username, port and credential is handed to the selection of execute.    *)
(***************************************************************************)
SelNames ==
  {S_local, S_Local, S_localhost, S_LocalHost, S_loopback, S_Remote,
   S_example}
SelPorts == {22, 2222}
SelHosts ==
  [ name : SelNames, hostname : SelNames, port : SelPorts,
    username : {S_root, S_empty}, auth : {"Agent", "Password", "KeyFile"} ]

SelInit ==
  /\ impl = "SshExecutor"
  /\ host = DummyHost(None, None)
  /\ background = FALSE
  /\ scriptStatus = 0
  /\ Idle
  /\ selHost \in SelHosts
  /\ selLocal = "none"
  /\ ConcIdle
  /\ StoreIdle
  /\ AppIdle
  /\ ShIdle
  /\ AuthIdle
  /\ ThrIdle

\* executor.rs 54-57: the branch execute takes for the host
SelectTarget ==
  /\ selLocal = "none"
  /\ selLocal' = IF SshExecutorIsLocal(selHost) THEN "Local" ELSE "Remote"
  /\ UNCHANGED selHost
  /\ UNCHANGED execVars
  /\ UNCHANGED uiVars
  /\ UNCHANGED concVars
  /\ UNCHANGED storeVars
  /\ UNCHANGED appVars
  /\ UNCHANGED shVars
  /\ UNCHANGED authVars
  /\ UNCHANGED thrVars

SelNext == SelectTarget

SelSpec == SelInit /\ [][SelNext]_vars

(***************************************************************************)
(* Concurrent executions: the application launches NumExecs commands on    *)
(* the local host through SshExecutor::execute.  Every launch has its own  *)
(* exec_id, its own callback (a clone of execution_tx that tags each       *)
(* update with that exec_id), its own kill channel and its own worker      *)
(* thread.  The scripts of this specification write to stdout only.        *)
(***************************************************************************)
ConcFrame ==
  /\ UNCHANGED execVars
  /\ UNCHANGED uiVars
  /\ UNCHANGED selVars
  /\ UNCHANGED storeVars
  /\ UNCHANGED appVars
  /\ UNCHANGED shVars
  /\ UNCHANGED authVars
  /\ UNCHANGED thrVars

\* app.rs 446-448: cb sends (exec_id, update) on the shared channel; src
\* records the worker that made the call
Send(e, updates) ==
  execution_rx' = execution_rx \o
    [i \in 1..Len(updates) |->
       [id |-> workers[e].exec_id, src |-> e, u |-> updates[i]]]

SetWorker(e, w) == workers' = [workers EXCEPT ![e] = w]

ConcInit ==
  /\ impl = "SshExecutor"
  /\ host = DummyHost(None, None)
  /\ background = FALSE
  /\ scriptStatus = 0
  /\ Idle
  /\ selHost = DummyHost(None, None) /\ selLocal = "none"
  /\ workers \in {[e \in Execs |->
                     [IdleWorker EXCEPT !.forever = (e = 1 /\ f)]] :
                    f \in BOOLEAN}
  /\ execution_rx = <<>>
  /\ StoreIdle
  /\ AppIdle
  /\ ShIdle
  /\ AuthIdle
  /\ ThrIdle

\* app.rs 440-448, 492; executor.rs 44-49: a fresh exec_id, a callback and
\* a kill channel of its own, and a worker thread of its own
ConcPerformExecution(e) ==
  /\ workers[e].pc = "idle"
  /\ SetWorker(e, [workers[e] EXCEPT
         !.pc = "spawned",
         !.exec_id = 1 + Cardinality({f \in Execs : workers[f].pc # "idle"})])
  /\ UNCHANGED execution_rx
  /\ ConcFrame

\* executor.rs 49-57
ConcSshStarted(e) ==
  /\ workers[e].pc = "spawned"
  /\ Send(e, <<Started("cmd_id")>>)
  /\ SetWorker(e, [workers[e] EXCEPT !.pc = "sl_stage"])
  /\ ConcFrame

\* executor.rs 58-86
ConcSshLocalStage(e) ==
  /\ workers[e].pc = "sl_stage"
  /\ \/ /\ Send(e, <<Stderr(<<"Failed to create temp file">>), Exit(-1)>>)
        /\ SetWorker(e, [workers[e] EXCEPT !.pc = "done"])
     \/ /\ SetWorker(e, [workers[e] EXCEPT !.pc = "sl_spawn"])
        /\ UNCHANGED execution_rx
  /\ ConcFrame

\* executor.rs 88-142
ConcSshLocalSpawn(e) ==
  /\ workers[e].pc = "sl_spawn"
  /\ \/ /\ Send(e, <<Stderr(<<"Failed to spawn local command">>), Exit(-1)>>)
        /\ SetWorker(e, [workers[e] EXCEPT !.pc = "done"])
     \/ /\ SetWorker(e, [workers[e] EXCEPT !.pc = "sl_poll",
                                           !.proc = "running"])
        /\ UNCHANGED execution_rx
  /\ ConcFrame

\* the child of execution e writes a chunk to its stdout
ConcChildWrite(e) ==
  /\ workers[e].proc = "running"
  /\ workers[e].written < ConcChunks
  /\ SetWorker(e, [workers[e] EXCEPT
         !.written = @ + 1,
         !.pipeOut = Append(@, ChunkNames[workers[e].written + 1])])
  /\ UNCHANGED execution_rx
  /\ ConcFrame

\* the child of execution e terminates, unless its script runs forever
ConcChildExit(e) ==
  /\ workers[e].proc = "running"
  /\ ~workers[e].forever
  /\ SetWorker(e, [workers[e] EXCEPT !.proc = "exited"])
  /\ UNCHANGED execution_rx
  /\ ConcFrame

\* executor.rs 118-129: the stdout reader thread of execution e
ConcSshLocalReadStdout(e) ==
  /\ \E n \in 1..Len(workers[e].pipeOut) :
       /\ Send(e, <<Stdout(SubSeq(workers[e].pipeOut, 1, n))>>)
       /\ SetWorker(e, [workers[e] EXCEPT
              !.pipeOut = SubSeq(@, n + 1, Len(@))])
  /\ ConcFrame

\* executor.rs 145-148
ConcSshLocalPoll(e) ==
  /\ workers[e].pc = "sl_poll"
  /\ IF workers[e].killq > 0
       THEN /\ Send(e, <<Stderr(<<KillNotice>>)>>)
            /\ SetWorker(e, [workers[e] EXCEPT !.pc = "sl_kill",
                                              !.killq = @ - 1])
       ELSE /\ SetWorker(e, [workers[e] EXCEPT !.pc = "sl_wait"])
            /\ UNCHANGED execution_rx
  /\ ConcFrame

\* executor.rs 149-153
ConcSshLocalKill(e) ==
  /\ workers[e].pc = "sl_kill"
  /\ Send(e, <<Exit(-1)>>)
  /\ SetWorker(e, [workers[e] EXCEPT
         !.pc = "done",
         !.proc = IF @ = "running" THEN "killed" ELSE @])
  /\ ConcFrame

\* executor.rs 156-172
ConcSshLocalWait(e) ==
  /\ workers[e].pc = "sl_wait"
  /\ \/ /\ workers[e].proc = "exited"
        /\ Send(e, <<Exit(ListStatus(SshLocalLine))>>)
        /\ SetWorker(e, [workers[e] EXCEPT !.pc = "done"])
     \/ /\ workers[e].proc = "running"
        /\ SetWorker(e, [workers[e] EXCEPT !.pc = "sl_poll"])
        /\ UNCHANGED execution_rx
     \/ /\ Send(e, <<Exit(-1)>>)
        /\ SetWorker(e, [workers[e] EXCEPT !.pc = "done"])
  /\ ConcFrame

\* app.rs: the Kill button of execution e sends on that execution's kill_tx
ConcUiKill(e) ==
  /\ workers[e].pc # "idle"
  /\ workers[e].killq < MaxKills
  /\ SetWorker(e, [workers[e] EXCEPT !.killq = @ + 1])
  /\ UNCHANGED execution_rx
  /\ ConcFrame

ConcNext ==
  \E e \in Execs :
    \/ ConcPerformExecution(e)
    \/ ConcSshStarted(e)
    \/ ConcSshLocalStage(e)
    \/ ConcSshLocalSpawn(e)
    \/ ConcChildWrite(e)
    \/ ConcChildExit(e)
    \/ ConcSshLocalReadStdout(e)
    \/ ConcSshLocalPoll(e)
    \/ ConcSshLocalKill(e)
    \/ ConcSshLocalWait(e)
    \/ ConcUiKill(e)

ConcSpec == ConcInit /\ [][ConcNext]_vars

\* the worker and reader threads of every execution keep being scheduled
ConcWorker(e) ==
  \/ ConcSshStarted(e) \/ ConcSshLocalStage(e) \/ ConcSshLocalSpawn(e)
  \/ ConcSshLocalPoll(e) \/ ConcSshLocalKill(e) \/ ConcSshLocalWait(e)

ConcFairSpec ==
  /\ ConcSpec
  /\ \A e \in Execs : WF_vars(ConcWorker(e))
  /\ \A e \in Execs : WF_vars(ConcSshLocalReadStdout(e))

(***************************************************************************)
(* CommandStore, store.rs.  One caller at a time: an operation changes the *)
(* StoreData under the write lock, releases the lock and calls save, which *)
(* writes the serialization to the temporary sibling, syncs it, renames it *)
(* over the live file and syncs the directory.  Every step of save can     *)
(* fail, and the process can crash between any two steps.                  *)
(***************************************************************************)
StoreCommands ==
  { [id |-> "c1", name |-> "a", source_path |-> None],
    [id |-> "c1", name |-> "b", source_path |-> None],
    [id |-> "c2", name |-> "a", source_path |-> Some("p")] }
StoreWorkflows ==
  { [id |-> "w1", commands |-> <<"c1">>],
    [id |-> "w1", commands |-> <<"c2", "c1">>],
    [id |-> "w2", commands |-> <<"c1">>] }
StoreHosts == { [id |-> "h1", name |-> n] : n \in {"a", "b"} }
StoreResults ==
  { [id |-> "e1", command_id |-> "c1", exit_code |-> Some(c),
     status |-> IF c = 0 THEN "Completed" ELSE "Failed",
     log_file |-> LogFile("e1")] : c \in {0, 3} }
StoreOutputs == {<<"STDOUT_CONTENT", "STDERR_CONTENT">>}
CommandIds == {c.id : c \in StoreCommands}
WorkflowIds == {w.id : w \in StoreWorkflows}

\* the texts handed to import_json: not a document, a document cut short,
\* a document without the executions key, a document that repeats an id and
\* names a missing command
ImportTexts ==
  { Garbage, Partial,
    [ kind |-> "doc", commands |-> <<[id |-> "c2", name |-> "a"]>>,
      workflows |-> <<>>, hosts |-> <<>>, executions |-> None ],
    [ kind |-> "doc",
      commands |-> <<[id |-> "c1", name |-> "a"], [id |-> "c1", name |-> "b"]>>,
      workflows |-> <<[id |-> "w2", commands |-> <<"c1">>],
                      [id |-> "w1", commands |-> <<"c2", "c1">>]>>,
      hosts |-> <<>>, executions |-> Some(<<>>) ] }

OuterFrame ==
  /\ UNCHANGED execVars
  /\ UNCHANGED uiVars
  /\ UNCHANGED selVars
  /\ UNCHANGED concVars
  /\ UNCHANGED appVars
  /\ UNCHANGED shVars
  /\ UNCHANGED authVars
  /\ UNCHANGED thrVars

StoreFrame ==
  /\ OuterFrame
  /\ UNCHANGED <<logs, snapshots>>

\* Vec::retain(|x| x.id != id)
retain(records, id) == SelectSeq(records, LAMBDA x : x.id # id)

\* add_command that pushes without removing the record of the same id
add_commandPushOnly(d, cmd) ==
  [d EXCEPT !.commands = Append(@, cmd)]

\* store.rs 136-140
add_command(d, cmd) ==
  [d EXCEPT !.commands = Append(retain(@, cmd.id), cmd)]

\* remove_command that also drops the recorded results of the command
remove_commandWithHistory(d, id) ==
  [d EXCEPT !.commands = retain(@, id),
            !.executions = SelectSeq(@, LAMBDA e : e.command_id # id)]

\* store.rs 157-160
remove_command(d, id) == [d EXCEPT !.commands = retain(@, id)]

\* store.rs 168-172
add_host(d, h) == [d EXCEPT !.hosts = Append(retain(@, h.id), h)]

\* store.rs 191-195
add_workflow(d, workflow) ==
  [d EXCEPT !.workflows = Append(retain(@, workflow.id), workflow)]

\* store.rs 211-214
remove_workflow(d, id) == [d EXCEPT !.workflows = retain(@, id)]

\* Vec::contains
contains(v, x) == \E j \in 1..Len(v) : v[j] = x

\* is_command_in_workflow that looks at the first step of each workflow only
is_command_in_workflowFirstStep(d, cmd_id) ==
  \E i \in 1..Len(d.workflows) :
    /\ d.workflows[i].commands # <<>>
    /\ d.workflows[i].commands[1] = cmd_id

\* store.rs 218-221: data.workflows.iter().any(|w| w.commands.contains(id))
is_command_in_workflow(d, cmd_id) ==
  \E i \in 1..Len(d.workflows) : contains(d.workflows[i].commands, cmd_id)

\* import_json that merges the document into the state it finds
import_jsonMerge(d, text) ==
  IF ~from_str(text).ok THEN [ok |-> FALSE, data |-> d]
  ELSE LET n == from_str(text).data IN
       [ ok |-> TRUE,
         data |-> [ commands |-> d.commands \o n.commands,
                    workflows |-> d.workflows \o n.workflows,
                    hosts |-> d.hosts \o n.hosts,
                    executions |-> d.executions \o n.executions ] ]

\* store.rs 297-300: parse, then replace the whole StoreData
import_json(d, text) ==
  IF ~from_str(text).ok THEN [ok |-> FALSE, data |-> d]
  ELSE [ok |-> TRUE, data |-> from_str(text).data]

\* an operation has changed the StoreData, released the lock and calls save
Mutate(d) ==
  /\ st_pc = "idle"
  /\ data' = d
  /\ st_pc' = "save"
  /\ returned' = <<>>
  /\ UNCHANGED <<file, tmp, json, oldFile, saved, faults>>
  /\ StoreFrame

\* a call that changes nothing returns r
Return(r) ==
  /\ st_pc = "idle"
  /\ returned' = r
  /\ UNCHANGED <<data, st_pc, file, tmp, json, oldFile, saved, faults>>
  /\ StoreFrame

AddCommand(cmd) == Mutate(add_command(data, cmd))

RemoveCommand(id) == Mutate(remove_command(data, id))

AddHost(h) == Mutate(add_host(data, h))

AddWorkflow(w) == Mutate(add_workflow(data, w))

\* remove_workflow that returns without calling save
RemoveWorkflowNoSave(id) ==
  /\ st_pc = "idle"
  /\ data' = remove_workflow(data, id)
  /\ returned' = <<>>
  /\ UNCHANGED <<st_pc, file, tmp, json, oldFile, saved, faults>>
  /\ StoreFrame

RemoveWorkflow(id) == Mutate(remove_workflow(data, id))

\* add_execution that writes every log to the file of execution e1
StoreAddExecutionSharedLog(result, output) ==
  /\ st_pc = "idle"
  /\ logs' = [logs EXCEPT ![LogFile("e1")] = Gz(output)]
  /\ data' = [data EXCEPT !.executions = AddExecution(@, result)]
  /\ st_pc' = "save"
  /\ returned' = <<>>
  /\ UNCHANGED <<file, tmp, json, oldFile, saved, faults, snapshots>>
  /\ OuterFrame

\* store.rs 229-253: the output is written, compressed, to the file named
\* result.log_file of the executions directory; the result replaces the
\* recorded result of the same id or is appended; save
StoreAddExecution(result, output) ==
  /\ st_pc = "idle"
  /\ logs' = [logs EXCEPT ![result.log_file] = Gz(output)]
  /\ data' = [data EXCEPT !.executions = AddExecution(@, result)]
  /\ st_pc' = "save"
  /\ returned' = <<>>
  /\ UNCHANGED <<file, tmp, json, oldFile, saved, faults, snapshots>>
  /\ OuterFrame

\* store.rs 264-286: the log_file of the first recorded result with this
\* id is opened and decompressed; None when there is no such result or the
\* file cannot be read
get_execution_log(d, l, exec_id) ==
  LET found == {i \in 1..Len(d.executions) : d.executions[i].id = exec_id} IN
  IF found = {} THEN None
  ELSE LET first == CHOOSE i \in found : \A j \in found : i <= j IN
       Gunzip(l[d.executions[first].log_file])

GetExecutionLog(exec_id) ==
  Return(<<"log", exec_id, get_execution_log(data, logs, exec_id)>>)

\* Sha256 over the bytes of the text, hex encoded: equal texts give equal
\* digests, and different texts are taken to give different digests
Sha256(text) == <<"sha256", text>>
SnapshotFile(hash_hex) == <<hash_hex, ".json.gz">>

\* store.rs 306-332: the digest returned, and the file written, for data d
snapshot_state(d) ==
  LET text == to_string_pretty(d) IN
  [ hash |-> Sha256(text),
    name |-> SnapshotFile(Sha256(text)),
    blob |-> Gz(text) ]

\* a snapshot named by the digest of the live store file
SnapshotStateOfLiveFile ==
  LET snap == snapshot_state(data) IN
  /\ st_pc = "idle"
  /\ snapshots' = {f \in snapshots : f.name # SnapshotFile(Sha256(file))} \cup
       {[name |-> SnapshotFile(Sha256(file)), blob |-> snap.blob]}
  /\ returned' = <<"Ok", Sha256(file)>>
  /\ UNCHANGED <<data, st_pc, file, tmp, json, oldFile, saved, faults, logs>>
  /\ OuterFrame

\* store.rs 306-332: File::create replaces a file of the same name
SnapshotState ==
  LET snap == snapshot_state(data) IN
  /\ st_pc = "idle"
  /\ snapshots' = {f \in snapshots : f.name # snap.name} \cup
       {[name |-> snap.name, blob |-> snap.blob]}
  /\ returned' = <<"Ok", snap.hash>>
  /\ UNCHANGED <<data, st_pc, file, tmp, json, oldFile, saved, faults, logs>>
  /\ OuterFrame

\* import_json that replaces the state by the default one and saves when
\* the text does not parse
ImportJsonClearsOnError(text) ==
  LET r == import_json(data, text) IN
  IF r.ok THEN Mutate(r.data) ELSE Mutate(EmptyData)

\* store.rs 296-304: a text that does not parse returns Err before any change
ImportJson(text) ==
  LET r == import_json(data, text) IN
  IF r.ok THEN Mutate(r.data) ELSE Return(<<"Err">>)

\* store.rs 290-294
ExportJson == Return(<<"Ok", to_string_pretty(data)>>)

\* store.rs 218-221, called on its own
IsCommandInWorkflow(id) ==
  Return(<<"bool", id, is_command_in_workflow(data, id)>>)

\* app.rs 652-661: the confirmed Delete of a selected command
DeleteCommand(id) ==
  IF is_command_in_workflow(data, id)
    THEN Return(<<"Cannot delete command as it is part of a workflow", id>>)
    ELSE Mutate(remove_command(data, id))

\* what a step of save leaves alone besides the files and its position
SaveFrame ==
  /\ UNCHANGED <<data, returned>>
  /\ StoreFrame

\* store.rs 93-98: the state is serialized and the temporary path is chosen
SaveSerialize ==
  /\ st_pc = "save"
  /\ json' = to_string_pretty(data)
  /\ oldFile' = file
  /\ saved' = "none"
  /\ st_pc' = "save_write"
  /\ UNCHANGED <<file, tmp, faults>>
  /\ SaveFrame

\* save that writes the serialization to the live path itself
SaveWriteBeginInPlace ==
  /\ st_pc = "save_write"
  /\ file' = Partial
  /\ st_pc' = "save_writing"
  /\ UNCHANGED <<tmp, json, oldFile, saved, faults>>
  /\ SaveFrame

\* store.rs 102: fs::write(&temp_path, json) creates or truncates the file
SaveWriteBegin ==
  /\ st_pc = "save_write"
  /\ tmp' = Partial
  /\ st_pc' = "save_writing"
  /\ UNCHANGED <<file, json, oldFile, saved, faults>>
  /\ SaveFrame

\* store.rs 102: fs::write has written every byte
SaveWriteEnd ==
  /\ st_pc = "save_writing"
  /\ tmp' = json
  /\ st_pc' = "save_sync"
  /\ UNCHANGED <<file, json, oldFile, saved, faults>>
  /\ SaveFrame

\* store.rs 104-106: File::open(&temp_path), sync_all
SaveSync ==
  /\ st_pc = "save_sync"
  /\ st_pc' = "save_rename"
  /\ UNCHANGED <<file, tmp, json, oldFile, saved, faults>>
  /\ SaveFrame

\* store.rs 108-109: fs::rename(&temp_path, &self.path)
SaveRename ==
  /\ st_pc = "save_rename"
  /\ file' = tmp
  /\ tmp' = NoFile
  /\ st_pc' = "save_dirsync"
  /\ UNCHANGED <<json, oldFile, saved, faults>>
  /\ SaveFrame

\* store.rs 111-118: the directory is synced, errors ignored; save returns
SaveSyncDir ==
  /\ st_pc = "save_dirsync"
  /\ saved' = "ok"
  /\ st_pc' = "idle"
  /\ json' = NoFile
  /\ oldFile' = file
  /\ UNCHANGED <<file, tmp, faults>>
  /\ SaveFrame

\* the error arm removes the live file instead of the temporary one
SaveErrorRemovesLive ==
  /\ st_pc \in {"save_write", "save_writing", "save_sync", "save_rename"}
  /\ faults < MaxFaults
  /\ faults' = faults + 1
  /\ file' = NoFile
  /\ saved' = "failed"
  /\ st_pc' = "idle"
  /\ json' = NoFile
  /\ UNCHANGED <<tmp, oldFile>>
  /\ SaveFrame

\* store.rs 102-109, 122-126: a step returns Err; the error is printed, the
\* temporary file is removed and save returns
SaveError ==
  /\ st_pc \in {"save_write", "save_writing", "save_sync", "save_rename"}
  /\ faults < MaxFaults
  /\ faults' = faults + 1
  /\ tmp' = NoFile
  /\ saved' = "failed"
  /\ st_pc' = "idle"
  /\ json' = NoFile
  /\ UNCHANGED <<file, oldFile>>
  /\ SaveFrame

\* store.rs 71-90: load, what CommandStore::new reads from the live file
load(f) ==
  IF f.kind = "absent" THEN EmptyData
  ELSE IF f.kind = "unreadable" THEN EmptyData
  ELSE IF from_str(f).ok THEN from_str(f).data ELSE EmptyData

\* the process dies and is started again: the files stay as they are (a
\* rename whose directory was not yet synced may be lost), load reads them
Crash ==
  /\ faults < MaxFaults
  /\ faults' = faults + 1
  /\ \E f \in (IF st_pc = "save_dirsync" THEN {file, oldFile} ELSE {file}) :
       /\ file' = f
       /\ oldFile' = f
       /\ data' = load(f)
  /\ st_pc' = "idle"
  /\ saved' = "none"
  /\ returned' = <<>>
  /\ json' = NoFile
  /\ UNCHANGED tmp
  /\ StoreFrame

\* a start that gives up when the file is there and cannot be loaded
NewFailsOnBadFile ==
  /\ st_pc = "new"
  /\ data' = load(file)
  /\ st_pc' = IF file.kind \in {"absent", "doc"} THEN "idle" ELSE "failed"
  /\ UNCHANGED <<file, tmp, json, oldFile, saved, returned, faults>>
  /\ StoreFrame

\* CommandStore::new: the store is built with StoreData::default() and
\* load() replaces the data only when the file is read and parsed
New ==
  /\ st_pc = "new"
  /\ data' = load(file)
  /\ st_pc' = "idle"
  /\ UNCHANGED <<file, tmp, json, oldFile, saved, returned, faults>>
  /\ StoreFrame

StoreInit ==
  /\ impl = "SshExecutor"
  /\ host = DummyHost(None, None)
  /\ background = FALSE
  /\ scriptStatus = 0
  /\ Idle
  /\ selHost = DummyHost(None, None) /\ selLocal = "none"
  /\ ConcIdle
  /\ StoreIdle
  /\ AppIdle
  /\ ShIdle
  /\ AuthIdle
  /\ ThrIdle

StoreNext ==
  \/ \E cmd \in StoreCommands : AddCommand(cmd)
  \/ \E id \in CommandIds : RemoveCommand(id)
  \/ \E h \in StoreHosts : AddHost(h)
  \/ \E w \in StoreWorkflows : AddWorkflow(w)
  \/ \E id \in WorkflowIds : RemoveWorkflow(id)
  \/ \E result \in StoreResults, output \in StoreOutputs :
       StoreAddExecution(result, output)
  \/ \E text \in ImportTexts : ImportJson(text)
  \/ ExportJson
  \/ \E id \in CommandIds : IsCommandInWorkflow(id)
  \/ \E id \in CommandIds : DeleteCommand(id)
  \/ SaveSerialize
  \/ SaveWriteBegin
  \/ SaveWriteEnd
  \/ SaveSync
  \/ SaveRename
  \/ SaveSyncDir

StoreSpec == StoreInit /\ [][StoreNext]_vars

(***************************************************************************)
(* The store with failing saves and crashes, on fewer records: every       *)
(* mutating operation is called, a step of save may fail and the process   *)
(* may crash anywhere, at most MaxFaults times in all.                     *)
(***************************************************************************)
SaveCommands == {c \in StoreCommands : c.id = "c1"}
SaveWorkflows == {w \in StoreWorkflows : w.id = "w1" /\ Len(w.commands) = 1}
SaveHosts == {h \in StoreHosts : h.name = "a"}
SaveResults == {r \in StoreResults : r.exit_code = Some(0)}

SaveNext ==
  \/ \E cmd \in SaveCommands : AddCommand(cmd)
  \/ \E cmd \in SaveCommands : RemoveCommand(cmd.id)
  \/ \E h \in SaveHosts : AddHost(h)
  \/ \E w \in SaveWorkflows : AddWorkflow(w)
  \/ \E w \in SaveWorkflows : RemoveWorkflow(w.id)
  \/ \E result \in SaveResults, output \in StoreOutputs :
       StoreAddExecution(result, output)
  \/ \E text \in ImportTexts : ImportJson(text)
  \/ SaveSerialize
  \/ SaveWriteBegin
  \/ SaveWriteEnd
  \/ SaveSync
  \/ SaveRename
  \/ SaveSyncDir
  \/ SaveError
  \/ Crash

SaveSpec == StoreInit /\ [][SaveNext]_vars

(***************************************************************************)
(* Start-up: the store is constructed on a path whose file is missing,     *)
(* unreadable, not a document, cut short, or a document; afterwards it is  *)
(* used as usual.                                                          *)
(***************************************************************************)
StartFiles ==
  { NoFile, Unreadable, Garbage, Partial,
    [ kind |-> "doc", commands |-> <<[id |-> "c1", name |-> "a"]>>,
      workflows |-> <<[id |-> "w1", commands |-> <<"c1">>]>>,
      hosts |-> <<>>, executions |-> None ],
    to_string_pretty(EmptyData) }

LoadInit ==
  /\ impl = "SshExecutor"
  /\ host = DummyHost(None, None)
  /\ background = FALSE
  /\ scriptStatus = 0
  /\ Idle
  /\ selHost = DummyHost(None, None) /\ selLocal = "none"
  /\ ConcIdle
  /\ data = EmptyData
  /\ file \in StartFiles /\ oldFile = file /\ tmp = NoFile
  /\ st_pc = "new" /\ json = NoFile
  /\ saved = "none" /\ returned = <<>> /\ faults = 0
  /\ logs = [n \in LogNames |-> NoFile]
  /\ snapshots = {}
  /\ AppIdle
  /\ ShIdle
  /\ AuthIdle
  /\ ThrIdle

LoadNext ==
  \/ New
  \/ \E cmd \in StoreCommands : AddCommand(cmd)
  \/ \E id \in CommandIds : RemoveCommand(id)
  \/ \E w \in SaveWorkflows : AddWorkflow(w)
  \/ \E w \in SaveWorkflows : RemoveWorkflow(w.id)
  \/ SaveSerialize
  \/ SaveWriteBegin
  \/ SaveWriteEnd
  \/ SaveSync
  \/ SaveRename
  \/ SaveSyncDir

LoadSpec == LoadInit /\ [][LoadNext]_vars

(***************************************************************************)
(* Snapshots: the state is changed, also in the one field of a command     *)
(* that is not serialized, and snapshotted in between.                     *)
(***************************************************************************)
SnapCommands ==
  { [id |-> "c1", name |-> "a", source_path |-> None],
    [id |-> "c1", name |-> "a", source_path |-> Some("p")],
    [id |-> "c2", name |-> "a", source_path |-> None] }

SnapNext ==
  \/ \E cmd \in SnapCommands : AddCommand(cmd)
  \/ \E cmd \in SnapCommands : RemoveCommand(cmd.id)
  \/ SnapshotState
  \/ SaveSerialize
  \/ SaveWriteBegin
  \/ SaveWriteEnd
  \/ SaveSync
  \/ SaveRename
  \/ SaveSyncDir

SnapSpec == StoreInit /\ [][SnapNext]_vars

(***************************************************************************)
(* The execution history and its logs: results of two executions are      *)
(* recorded with different outputs, read back, and replaced by imports.    *)
(***************************************************************************)
LogResults ==
  StoreResults \cup
    { [id |-> "e2", command_id |-> "c1", exit_code |-> Some(0),
       status |-> "Completed", log_file |-> LogFile("e2")] }
LogOutputs == StoreOutputs \cup {<<>>, <<"STDOUT_CONTENT">>}

LogNext ==
  \/ \E result \in LogResults, output \in LogOutputs :
       StoreAddExecution(result, output)
  \/ \E exec_id \in ExecutionIds : GetExecutionLog(exec_id)
  \/ \E text \in ImportTexts : ImportJson(text)
  \/ SaveSerialize
  \/ SaveWriteBegin
  \/ SaveWriteEnd
  \/ SaveSync
  \/ SaveRename
  \/ SaveSyncDir

LogSpec == StoreInit /\ [][LogNext]_vars

(***************************************************************************)
(* Execution logs when the log cannot be written, and results that come    *)
(* in through import_json.                                                 *)
(***************************************************************************)
\* store.rs 231-245, 247-252: create_dir_all or File::create fails and no
\* file is written, or the write fails and the file stays cut short; the
\* failure is printed, the result is recorded and the store is saved
StoreAddExecutionWriteFails(result, output) ==
  /\ st_pc = "idle"
  /\ faults < MaxFaults
  /\ faults' = faults + 1
  /\ \E f \in {logs[result.log_file], Partial} :
       logs' = [logs EXCEPT ![result.log_file] = f]
  /\ data' = [data EXCEPT !.executions = AddExecution(@, result)]
  /\ st_pc' = "save"
  /\ returned' = <<>>
  /\ UNCHANGED <<file, tmp, json, oldFile, saved, snapshots>>
  /\ OuterFrame

\* documents exported by another store: with one result, with two
LogImportTexts ==
  { [ kind |-> "doc", commands |-> <<[id |-> "c1", name |-> "a"]>>,
      workflows |-> <<>>, hosts |-> <<>>,
      executions |-> Some(SubSeq(
        << [id |-> "e2", command_id |-> "c1", exit_code |-> Some(0),
            status |-> "Completed", log_file |-> LogFile("e2")],
           [id |-> "e1", command_id |-> "c1", exit_code |-> Some(3),
            status |-> "Failed", log_file |-> LogFile("e1")] >>, 1, n)) ] :
    n \in 1..2 }

LogFaultNext ==
  \/ \E result \in LogResults, output \in StoreOutputs :
       StoreAddExecution(result, output)
  \/ \E result \in LogResults, output \in StoreOutputs :
       StoreAddExecutionWriteFails(result, output)
  \/ \E exec_id \in ExecutionIds : GetExecutionLog(exec_id)
  \/ \E text \in LogImportTexts : ImportJson(text)
  \/ SaveSerialize
  \/ SaveWriteBegin
  \/ SaveWriteEnd
  \/ SaveSync
  \/ SaveRename
  \/ SaveSyncDir

LogFaultSpec == StoreInit /\ [][LogFaultNext]_vars

(***************************************************************************)
(* The environment of a run: the application starts single commands and    *)
(* workflows, prompts for the variables marked ask_user, and hands each    *)
(* run's environment to executor.execute.  An execution ends with an exit  *)
(* code at any time after its launch.                                      *)
(***************************************************************************)
MaxRuns == 3

\* models.rs 7-11
EnvVar(key, value, ask_user) ==
  [key |-> key, value |-> value, ask_user |-> ask_user]

\* the env_vars of the stored commands, and the stored workflows
AppCommands ==
  [ c1 |-> <<EnvVar("K", "d", TRUE), EnvVar("L", "d", FALSE)>>,
    c2 |-> <<EnvVar("K", "e", FALSE)>>,
    c3 |-> <<EnvVar("K", "f", FALSE)>> ]
AppWorkflows ==
  [ w1 |-> [commands |-> <<"c1", "c2">>,
            env_vars |-> <<EnvVar("L", "w", FALSE)>>],
    w2 |-> [commands |-> <<"c2">>, env_vars |-> <<>>],
    w3 |-> [commands |-> <<"c2", "c3">>, env_vars |-> <<>>] ]
ExitCodes == {0, 1}

\* HashMap::new(), HashMap::insert, and the loops that insert every entry
EmptyMap == [x \in {} |-> ""]
insert(m, k, v) == [x \in DOMAIN m \cup {k} |-> IF x = k THEN v ELSE m[x]]
InsertAll(m, o) ==
  [x \in DOMAIN m \cup DOMAIN o |-> IF x \in DOMAIN o THEN o[x] ELSE m[x]]
RECURSIVE InsertVars(_, _)
InsertVars(m, vs) ==
  IF vs = <<>> THEN m
  ELSE InsertVars(insert(m, Head(vs).key, Head(vs).value), Tail(vs))

HasKey(vs, k) == \E i \in 1..Len(vs) : vs[i].key = k

\* app.rs 277-285: the workflow's own variables
RECURSIVE WorkflowVars(_, _)
WorkflowVars(acc, vs) ==
  IF vs = <<>> THEN acc
  ELSE LET v == Head(vs) IN
       WorkflowVars(
         [ resolved |-> insert(acc.resolved, v.key, v.value),
           ask |-> IF v.ask_user /\ ~HasKey(acc.ask, v.key)
                   THEN Append(acc.ask, v) ELSE acc.ask ],
         Tail(vs))

\* app.rs 289-326: the variables of one command of the workflow
RECURSIVE CommandVars(_, _, _)
CommandVars(wf, acc, vs) ==
  IF vs = <<>> THEN acc
  ELSE LET v == Head(vs)
           resolved == IF v.key \in DOMAIN acc.resolved THEN acc.resolved
                       ELSE insert(acc.resolved, v.key, v.value)
           found == {i \in 1..Len(wf.env_vars) : wf.env_vars[i].key = v.key}
           effective_ask ==
             IF found # {}
             THEN wf.env_vars[CHOOSE i \in found : \A j \in found : i <= j].ask_user
             ELSE v.ask_user
       IN CommandVars(wf,
            [ resolved |-> resolved,
              ask |-> IF v.ask_user /\ effective_ask /\ ~HasKey(acc.ask, v.key)
                      THEN Append(acc.ask, EnvVar(v.key, resolved[v.key], TRUE))
                      ELSE acc.ask ],
            Tail(vs))

\* app.rs 287-328: the loop over the commands of the workflow
RECURSIVE AllCommandVars(_, _, _)
AllCommandVars(wf, acc, cmds) ==
  IF cmds = <<>> THEN acc
  ELSE AllCommandVars(wf, CommandVars(wf, acc, AppCommands[Head(cmds)]),
                      Tail(cmds))

\* app.rs 272-328: resolved_env and vars_to_ask of a workflow
ResolveWorkflow(wf) ==
  AllCommandVars(wf,
    WorkflowVars([resolved |-> EmptyMap, ask |-> <<>>], wf.env_vars),
    wf.commands)

\* app.rs 471-476: the command's declared defaults
Defaults(cmd_id) == InsertVars(EmptyMap, AppCommands[cmd_id])

\* app.rs 417-492: perform_execution called with aw as the active workflow
\* and run as the executions still running
perform_execution(cmd_id, explicit_env, aw, run) ==
  LET exec_id == Len(calls) + 1
      env == IF aw # None THEN InsertAll(Defaults(cmd_id), aw[1].resolved_env)
             ELSE IF explicit_env # None
                  THEN InsertAll(Defaults(cmd_id), explicit_env[1])
                  ELSE Defaults(cmd_id)
  IN /\ Len(calls) < MaxRuns
     /\ calls' = Append(calls,
                   [exec_id |-> exec_id, cmd_id |-> cmd_id, env |-> env])
     /\ running' = run \cup {exec_id}
     /\ active_workflow' =
          IF aw # None
          THEN Some([aw[1] EXCEPT !.current_execution_id = Some(exec_id)])
          ELSE None

\* what the trace records: an execution launched by hand (wf = None) or as
\* step number step of a run of workflow wf, and an Exit delivered
Launched(exec_id, wf, step) ==
  [t |-> "launch", exec_id |-> exec_id, workflow |-> wf, step |-> step,
   code |-> 0]
Exited(exec_id, code) ==
  [t |-> "exit", exec_id |-> exec_id, workflow |-> None, step |-> 0,
   code |-> code]

AppFrame ==
  /\ UNCHANGED execVars
  /\ UNCHANGED uiVars
  /\ UNCHANGED selVars
  /\ UNCHANGED concVars
  /\ UNCHANGED storeVars
  /\ UNCHANGED shVars
  /\ UNCHANGED authVars
  /\ UNCHANGED thrVars

\* app.rs 256-349
TriggerWorkflowExecution(w) ==
  LET wf == AppWorkflows[w]
      r == ResolveWorkflow(wf)
  IN /\ IF r.ask # <<>>
        THEN /\ pending_execution' =
                  Some([ cmd_id |-> None, workflow_id |-> Some(w),
                         initial_vars |-> r.resolved, vars_to_ask |-> r.ask ])
             /\ UNCHANGED <<active_workflow, calls, running, trace>>
        ELSE /\ perform_execution(wf.commands[1], None,
                  Some([ workflow_id |-> w, current_step_index |-> 0,
                         current_execution_id |-> None,
                         resolved_env |-> r.resolved ]), running)
             /\ trace' = Append(trace, Launched(Len(calls'), Some(w), 0))
             /\ UNCHANGED pending_execution
     /\ AppFrame

\* app.rs 379-415
TriggerCommandExecution(c) ==
  LET vars_to_ask == SelectSeq(AppCommands[c], LAMBDA v : v.ask_user) IN
  /\ IF vars_to_ask # <<>>
     THEN /\ pending_execution' =
               Some([ cmd_id |-> Some(c), workflow_id |-> None,
                      initial_vars |-> Defaults(c), vars_to_ask |-> vars_to_ask ])
          /\ UNCHANGED <<active_workflow, calls, running, trace>>
     ELSE /\ perform_execution(c, None, active_workflow, running)
          /\ trace' = Append(trace, Launched(Len(calls'), None, 0))
          /\ UNCHANGED pending_execution
  /\ AppFrame

\* app.rs 687-693: what the user may leave in the fields of the prompt
Edits(vars_to_ask) ==
  { [i \in 1..Len(vars_to_ask) |->
       IF typed[i] THEN [vars_to_ask[i] EXCEPT !.value = "u"]
       ELSE vars_to_ask[i]] :
    typed \in [1..Len(vars_to_ask) -> BOOLEAN] }

\* the fields of every prompt the application can open
AllEdits ==
  UNION ( {Edits(ResolveWorkflow(AppWorkflows[w]).ask) :
             w \in DOMAIN AppWorkflows}
          \cup {Edits(SelectSeq(AppCommands[c], LAMBDA v : v.ask_user)) :
                  c \in DOMAIN AppCommands} )

\* app.rs 707-709: Cancel
CancelPending ==
  /\ pending_execution # None
  /\ pending_execution' = None
  /\ UNCHANGED <<active_workflow, calls, running, trace>>
  /\ AppFrame

\* app.rs 711-737: Run, with edited as the fields of the prompt
ConfirmPending(edited) ==
  /\ pending_execution # None
  /\ edited \in Edits(pending_execution[1].vars_to_ask)
  /\ LET pending == pending_execution[1]
         final_vars == InsertVars(pending.initial_vars, edited)
     IN IF pending.workflow_id # None
        THEN perform_execution(
               AppWorkflows[pending.workflow_id[1]].commands[1], None,
               Some([ workflow_id |-> pending.workflow_id[1],
                      current_step_index |-> 0,
                      current_execution_id |-> None,
                      resolved_env |-> final_vars ]), running)
        ELSE perform_execution(pending.cmd_id[1], Some(final_vars),
                               active_workflow, running)
  /\ trace' = Append(trace,
       Launched(Len(calls'), pending_execution[1].workflow_id, 0))
  /\ pending_execution' = None
  /\ AppFrame

\* app.rs 758-791, 354-377: an execution delivers Exit(code) and
\* check_workflow_progress runs
ExecutionExit(id, code) ==
  /\ id \in running
  /\ IF active_workflow # None
        /\ active_workflow[1].current_execution_id = Some(id)
     THEN LET aw == active_workflow[1]
              wf == AppWorkflows[aw.workflow_id]
              next_idx == aw.current_step_index + 1
          IN IF code = 0 /\ next_idx < Len(wf.commands)
             THEN /\ perform_execution(wf.commands[next_idx + 1], None,
                       Some([aw EXCEPT !.current_step_index = next_idx]),
                       running \ {id})
                  /\ trace' = trace \o
                       <<Exited(id, code),
                         Launched(Len(calls'), Some(aw.workflow_id), next_idx)>>
             ELSE /\ active_workflow' = None
                  /\ running' = running \ {id}
                  /\ trace' = Append(trace, Exited(id, code))
                  /\ UNCHANGED calls
     ELSE /\ running' = running \ {id}
          /\ trace' = Append(trace, Exited(id, code))
          /\ UNCHANGED <<active_workflow, calls>>
  /\ UNCHANGED pending_execution
  /\ AppFrame

AppNext ==
  \/ \E w \in DOMAIN AppWorkflows : TriggerWorkflowExecution(w)
  \/ \E c \in DOMAIN AppCommands : TriggerCommandExecution(c)
  \/ CancelPending
  \/ \E edited \in AllEdits : ConfirmPending(edited)
  \/ \E id \in 1..MaxRuns, code \in ExitCodes : ExecutionExit(id, code)

AppSpec == StoreInit /\ [][AppNext]_vars

(***************************************************************************)
(* The command line: orchestrate_execution adds the two implicit variables *)
(* to the caller's map, writes one export per entry in front of the        *)
(* command, quotes the whole and hands it to the run environment, which    *)
(* runs it with /bin/bash -c.  A text is a sequence of pieces: the quote,  *)
(* the backslash, the space and the separators are pieces of their own,    *)
(* every other piece is plain text.                                        *)
(***************************************************************************)
ExecId == <<"exec_id">>
LogPath == <<"/tmp/switchboard_", "exec_id", ".log">>

\* the values a user may give a variable: plain, with a space, with a quote
UserValues == { <<"a">>, <<"a", " ", "b">>, <<"a", "'", "b">> }

\* the maps execute is called with: K declared or not, and the implicit
\* keys already present or not
CallerEnvs ==
  { m \in UNION { [D -> UserValues] :
                    D \in SUBSET {"K", "SWITCHBOARD_RUN", "SWITCHBOARD_LOG"} } :
      \A k \in DOMAIN m \ {"K"} : m[k] = <<"a">> }

\* str::replace('\'', "'\\''")
RECURSIVE EscapeQuotes(_)
EscapeQuotes(text) ==
  IF text = <<>> THEN <<>>
  ELSE (IF Head(text) = "'" THEN <<"'", "\\", "'", "'">> ELSE <<Head(text)>>)
         \o EscapeQuotes(Tail(text))

\* orchestration.rs 22-26: one export per entry, in the order the map
\* yields its entries
RECURSIVE EnvExports(_, _)
EnvExports(m, order) ==
  IF order = <<>> THEN <<>>
  ELSE <<"export", " ", Head(order), "=", "'">>
         \o EscapeQuotes(m[Head(order)]) \o <<"'", ";", " ">>
         \o EnvExports(m, Tail(order))

\* the orders in which a HashMap may yield its keys
KeyOrders(m) ==
  { o \in [1..Cardinality(DOMAIN m) -> DOMAIN m] :
      \A i, j \in DOMAIN o : o[i] = o[j] => i = j }

\* orchestration.rs 28-32: SCRIPT stands for
\* chmod +x script && cd work_dir && bash -l script; rm -f script
inner_cmd(m, order) == EnvExports(m, order) \o <<"SCRIPT">>

\* orchestration.rs 42 and 49-50
ExecCmd(m, order, bg) ==
  IF bg
  THEN <<"nohup", " ", "bash", " ", "-c", " ", "'">> \o inner_cmd(m, order)
         \o <<"'", " ", ">log 2>&1 &">>
  ELSE <<"/bin/bash", " ", "-c", " ", "'">>
         \o EscapeQuotes(inner_cmd(m, order))
         \o <<"'", " ", "|", " ", "tee", " ", "log">>

\* the shell's reading of a line, piece by piece: words are separated by
\* spaces, commands by ; and |, a quote opens a stretch taken literally up
\* to the next quote, a backslash outside quotes makes the next piece
\* literal; st holds the mode, the word and the command being read
LexStep(st, piece) ==
  LET endWord == IF st.inword THEN Append(st.words, st.word) ELSE st.words
      endCmd == IF endWord # <<>> THEN Append(st.cmds, endWord) ELSE st.cmds
      put(mode) == [st EXCEPT !.mode = mode, !.word = Append(@, piece),
                              !.inword = TRUE]
  IN CASE st.mode = "quoted" ->
            IF piece = "'" THEN [st EXCEPT !.mode = "plain"] ELSE put("quoted")
       [] st.mode = "escaped" -> put("plain")
       [] piece = "'" -> [st EXCEPT !.mode = "quoted", !.inword = TRUE]
       [] piece = "\\" -> [st EXCEPT !.mode = "escaped"]
       [] piece = " " ->
            [st EXCEPT !.words = endWord, !.word = <<>>, !.inword = FALSE]
       [] piece \in {";", "|"} ->
            [st EXCEPT !.cmds = endCmd, !.words = <<>>, !.word = <<>>,
                       !.inword = FALSE]
       [] OTHER -> put("plain")

\* the pieces lo..hi read in order; the test on left.mode, which never
\* holds, has the left half read before the right half is entered
RECURSIVE Lex(_, _, _, _)
Lex(st, text, lo, hi) ==
  IF lo > hi THEN st
  ELSE IF lo = hi THEN LexStep(st, text[lo])
  ELSE LET mid == (lo + hi) \div 2
           left == Lex(st, text, lo, mid)
       IN IF left.mode = "none" THEN left ELSE Lex(left, text, mid + 1, hi)

\* a line with an open quote does not parse
Parse(text) ==
  LET st == Lex([mode |-> "plain", word |-> <<>>, inword |-> FALSE,
                 words |-> <<>>, cmds |-> <<>>], text, 1, Len(text))
      end == LexStep(st, ";")
  IN [ok |-> st.mode # "quoted",
      cmds |-> IF st.mode = "quoted" THEN <<>> ELSE end.cmds]

\* export NAME=value ...: every word of that form sets the variable
RECURSIVE Export(_, _, _)
Export(env, words, i) ==
  IF i > Len(words) THEN env
  ELSE LET w == words[i] IN
       Export(IF Len(w) >= 2 /\ w[2] = "="
              THEN insert(env, w[1], SubSeq(w, 3, Len(w))) ELSE env,
              words, i + 1)

\* the text after -c when the command starts another bash, None otherwise
BashArg(cmd) ==
  CASE Len(cmd) >= 3 /\ cmd[1] \in {<<"/bin/bash">>, <<"bash">>}
         /\ cmd[2] = <<"-c">> -> Some(cmd[3])
    [] Len(cmd) >= 4 /\ cmd[1] = <<"nohup">>
         /\ cmd[2] \in {<<"/bin/bash">>, <<"bash">>}
         /\ cmd[3] = <<"-c">> -> Some(cmd[4])
    [] OTHER -> None

\* bash -c text in environment env: a line that does not parse runs
\* nothing; otherwise the commands run in turn.  script is the environment
\* in which the staged script was started, None if it was not.
RECURSIVE Bash(_, _)
RECURSIVE Run(_, _, _, _)
Run(cmds, i, env, script) ==
  IF i > Len(cmds) THEN [ok |-> TRUE, env |-> env, script |-> script]
  ELSE LET cmd == cmds[i] IN
       CASE cmd[1] = <<"export">> ->
              Run(cmds, i + 1, Export(env, cmd, 2), script)
         [] cmd[1] = <<"SCRIPT">> ->
              Run(cmds, i + 1, env, IF script = None THEN Some(env) ELSE script)
         [] BashArg(cmd) # None ->
              Run(cmds, i + 1, env,
                  IF script = None THEN Bash(BashArg(cmd)[1], env).script
                  ELSE script)
         [] OTHER -> Run(cmds, i + 1, env, script)
Bash(text, env) ==
  LET p == Parse(text) IN
  IF p.ok THEN Run(p.cmds, 1, env, None)
  ELSE [ok |-> FALSE, env |-> env, script |-> None]

ShFrame ==
  /\ UNCHANGED <<impl, host, scriptStatus, pc, ret, events, killq, kills,
                 proc, pipeOut, pipeErr, written, chan, rxAlive, failure,
                 killObserved, killLive, killLate, killEarly,
                 script_file>>
  /\ UNCHANGED uiVars
  /\ UNCHANGED selVars
  /\ UNCHANGED concVars
  /\ UNCHANGED storeVars
  /\ UNCHANGED appVars
  /\ UNCHANGED authVars
  /\ UNCHANGED thrVars

\* orchestration.rs 17-18
OrchInsertImplicit ==
  /\ sh_pc = "start"
  /\ env_vars' = insert(insert(env_vars, "SWITCHBOARD_RUN", ExecId),
                        "SWITCHBOARD_LOG", LogPath)
  /\ sh_pc' = "inserted"
  /\ UNCHANGED <<background, exec_cmd, shell>>
  /\ ShFrame

\* orchestration.rs 22-32, 42, 49-50
OrchFormat(order) ==
  /\ sh_pc = "inserted"
  /\ order \in KeyOrders(env_vars)
  /\ exec_cmd' = ExecCmd(env_vars, order, background)
  /\ sh_pc' = "formatted"
  /\ UNCHANGED <<background, env_vars, shell>>
  /\ ShFrame

\* local.rs 29-34 and 97-104: /bin/bash -c exec_cmd
ShellRun ==
  /\ sh_pc = "formatted"
  /\ shell' = Some(Bash(exec_cmd, EmptyMap))
  /\ sh_pc' = "ran"
  /\ UNCHANGED <<background, env_vars, exec_cmd>>
  /\ ShFrame

ShInit ==
  /\ impl = "Executor"
  /\ host = DummyHost(None, None)
  /\ background \in BOOLEAN
  /\ scriptStatus = 0
  /\ Idle
  /\ selHost = DummyHost(None, None) /\ selLocal = "none"
  /\ ConcIdle
  /\ StoreIdle
  /\ AppIdle
  /\ sh_pc = "start"
  /\ env_vars \in CallerEnvs
  /\ exec_cmd = <<>>
  /\ shell = None
  /\ AuthIdle
  /\ ThrIdle

AllKeyOrders ==
  UNION { KeyOrders([k \in D |-> <<>>]) :
            D \in SUBSET {"K", "SWITCHBOARD_RUN", "SWITCHBOARD_LOG"} }

ShNext ==
  \/ OrchInsertImplicit
  \/ \E order \in AllKeyOrders : OrchFormat(order)
  \/ ShellRun

ShSpec == ShInit /\ [][ShNext]_vars

(***************************************************************************)
(* Authentication: SshRunEnvironment::connect after the handshake.  The    *)
(* agent, each key file and the server behave in any way; connect tries    *)
(* the methods one after the other.                                        *)
(***************************************************************************)
\* the key files that exist, and what the server does with each
KeySets == { {}, {"id_rsa"}, {"id_ed25519", "id_rsa"},
             {"id_ecdsa", "id_rsa", "id_dsa"},
             {"id_ed25519", "id_ecdsa", "id_rsa", "id_dsa"} }
Worlds ==
  { w \in [ agent : AuthOutcomes, home : BOOLEAN, exists : KeySets,
            key : [{"id_ed25519", "id_ecdsa", "id_rsa", "id_dsa"} ->
                     {"Err", "authenticated"}] ] :
      \A k \in DOMAIN w.key : k \notin w.exists => w.key[k] = "Err" }

AuthFrame ==
  /\ UNCHANGED execVars
  /\ UNCHANGED uiVars
  /\ UNCHANGED selVars
  /\ UNCHANGED concVars
  /\ UNCHANGED storeVars
  /\ UNCHANGED appVars
  /\ UNCHANGED shVars
  /\ UNCHANGED thrVars
  /\ UNCHANGED ssh_world

\* ssh.rs 23-27: userauth_agent(..).is_ok() && authenticated()
ConnectAgent ==
  /\ conn.pc = "agent"
  /\ LET auth_success == ssh_world.agent = "authenticated" IN
     conn' = [conn EXCEPT
       !.tried = Append(@, "agent"),
       !.authenticated = auth_success,
       !.pc = IF auth_success THEN "end"
              ELSE IF ssh_world.home THEN "keys" ELSE "end"]
  /\ AuthFrame

\* a loop over the key files that goes on after a key has authenticated
ConnectKeyNoBreak ==
  /\ conn.pc = "keys" /\ conn.i <= Len(key_types)
  /\ LET key_name == key_types[conn.i]
         key_exists == key_name \in ssh_world.exists
         auth_success == key_exists /\ ssh_world.key[key_name] = "authenticated"
     IN conn' = [conn EXCEPT
          !.tried = IF key_exists THEN Append(@, key_name) ELSE @,
          !.authenticated = @ \/ auth_success,
          !.i = @ + 1,
          !.pc = IF conn.i = Len(key_types) THEN "end" ELSE "keys"]
  /\ AuthFrame

\* ssh.rs 29-46: one turn of the loop over key_types
ConnectKey ==
  /\ conn.pc = "keys" /\ conn.i <= Len(key_types)
  /\ LET key_name == key_types[conn.i]
         key_exists == key_name \in ssh_world.exists
         auth_success == key_exists /\ ssh_world.key[key_name] = "authenticated"
     IN conn' = [conn EXCEPT
          !.tried = IF key_exists THEN Append(@, key_name) ELSE @,
          !.authenticated = auth_success,
          !.i = @ + 1,
          !.pc = IF auth_success \/ conn.i = Len(key_types)
                 THEN "end" ELSE "keys"]
  /\ AuthFrame

\* ssh.rs 48-63: AuthFailed unless a method authenticated
ConnectEnd ==
  /\ conn.pc = "end"
  /\ conn' = [conn EXCEPT
       !.pc = "done",
       !.result = IF conn.authenticated THEN "Ok" ELSE "AuthFailed"]
  /\ AuthFrame

AuthInit ==
  /\ impl = "Executor"
  /\ host = DummyHost(None, None)
  /\ background = FALSE
  /\ scriptStatus = 0
  /\ Idle
  /\ selHost = DummyHost(None, None) /\ selLocal = "none"
  /\ ConcIdle
  /\ StoreIdle
  /\ AppIdle
  /\ ShIdle
  /\ ssh_world \in Worlds
  /\ conn = [NoConn EXCEPT !.pc = "agent"]
  /\ ThrIdle

AuthNext ==
  \/ ConnectAgent
  \/ ConnectKey
  \/ ConnectEnd

AuthSpec == AuthInit /\ [][AuthNext]_vars

(***************************************************************************)
(* Threads on one CommandStore (it is Clone over an Arc<RwLock<StoreData>>)*)
(* Two threads each call add_command or remove_command, a third calls      *)
(* get_command.  A mutation holds the write guard over retain and push;    *)
(* save holds a read guard from its first line to its return, so two saves *)
(* can run at once, and both use the one temporary path.  A file being     *)
(* written stays open under whatever name it has: fs::write on an existing *)
(* temporary file truncates that very file, and a rename moves it with     *)
(* every handle that is open on it.                                        *)
(***************************************************************************)
MaxReads == 2
Threads == {"t1", "t2"}
ThrCalls ==
  { [kind |-> "add_command",
     cmd |-> [id |-> "c1", name |-> "b", source_path |-> None]],
    [kind |-> "add_command",
     cmd |-> [id |-> "c2", name |-> "a", source_path |-> None]],
    [kind |-> "remove_command",
     cmd |-> [id |-> "c1", name |-> "a", source_path |-> None]] }
ThrStartData ==
  { EmptyData,
    [EmptyData EXCEPT
       !.commands = <<[id |-> "c1", name |-> "a", source_path |-> None]>>] }

\* store.rs 146-149: the first command of this id, if any
get_command(d, id) ==
  LET found == {i \in 1..Len(d.commands) : d.commands[i].id = id} IN
  IF found = {} THEN None
  ELSE Some(d.commands[CHOOSE i \in found : \A j \in found : i <= j])

ThrFrame ==
  /\ UNCHANGED execVars
  /\ UNCHANGED uiVars
  /\ UNCHANGED selVars
  /\ UNCHANGED concVars
  /\ UNCHANGED appVars
  /\ UNCHANGED shVars
  /\ UNCHANGED authVars
  /\ UNCHANGED <<st_pc, json, oldFile, saved, returned, faults, logs,
                 snapshots, data0>>

SetThr(t, f) == thr' = [thr EXCEPT ![t] = f]

\* store.rs 137, 158: self.data.write() waits until no guard is held
ThrWriteLock(t) ==
  /\ thr[t].pc = "call"
  /\ lock = Unlocked
  /\ lock' = [lock EXCEPT !.writer = Some(t)]
  /\ SetThr(t, [thr[t] EXCEPT !.pc = "retain"])
  /\ UNCHANGED <<data, file, tmp, seen>>
  /\ ThrFrame

\* store.rs 139, 159: data.commands.retain(|c| c.id != id)
ThrRetain(t) ==
  /\ thr[t].pc = "retain"
  /\ data' = [data EXCEPT !.commands = retain(@, thr[t].call.cmd.id)]
  /\ SetThr(t, [thr[t] EXCEPT
       !.pc = IF thr[t].call.kind = "add_command" THEN "push" ELSE "unlock"])
  /\ UNCHANGED <<lock, file, tmp, seen>>
  /\ ThrFrame

\* store.rs 140: data.commands.push(cmd)
ThrPush(t) ==
  /\ thr[t].pc = "push"
  /\ data' = [data EXCEPT !.commands = Append(@, thr[t].call.cmd)]
  /\ SetThr(t, [thr[t] EXCEPT !.pc = "unlock"])
  /\ UNCHANGED <<lock, file, tmp, seen>>
  /\ ThrFrame

\* store.rs 141, 160: the write guard goes out of scope
ThrWriteUnlock(t) ==
  /\ thr[t].pc = "unlock"
  /\ lock' = [lock EXCEPT !.writer = None]
  /\ SetThr(t, [thr[t] EXCEPT !.pc = "save"])
  /\ UNCHANGED <<data, file, tmp, seen>>
  /\ ThrFrame

\* store.rs 94-98: save takes a read guard and serializes the state
ThrSaveSerialize(t) ==
  /\ thr[t].pc = "save"
  /\ lock.writer = None
  /\ lock' = [lock EXCEPT !.readers = @ \cup {t}]
  /\ SetThr(t, [thr[t] EXCEPT !.pc = "save_write",
                              !.json = to_string_pretty(data)])
  /\ UNCHANGED <<data, file, tmp, seen>>
  /\ ThrFrame

\* store.rs 102: fs::write opens the temporary path with create and
\* truncate; a file already there is emptied, not replaced
ThrSaveWriteBegin(t) ==
  /\ thr[t].pc = "save_write"
  /\ tmp' = Partial
  /\ SetThr(t, [thr[t] EXCEPT !.pc = "save_writing", !.fd = "tmp"])
  /\ UNCHANGED <<data, file, lock, seen>>
  /\ ThrFrame

\* store.rs 102: fs::write writes the bytes from offset 0 into the file it
\* opened, wherever that file is by now
ThrSaveWriteEnd(t) ==
  /\ thr[t].pc = "save_writing"
  /\ tmp' = IF thr[t].fd = "tmp" THEN thr[t].json ELSE tmp
  /\ file' = IF thr[t].fd = "live" THEN thr[t].json ELSE file
  /\ SetThr(t, [thr[t] EXCEPT !.pc = "save_sync", !.fd = "closed"])
  /\ UNCHANGED <<data, lock, seen>>
  /\ ThrFrame

\* store.rs 120-124: the error arm removes the temporary file, save returns
\* and its read guard is dropped
ThrSaveFailed(t) ==
  /\ tmp' = NoFile
  /\ lock' = [lock EXCEPT !.readers = @ \ {t}]
  /\ thr' = [u \in Threads |->
       IF u = t THEN [thr[t] EXCEPT !.pc = "done", !.saved = "failed"]
       ELSE IF thr[u].fd = "tmp" THEN [thr[u] EXCEPT !.fd = "unlinked"]
       ELSE thr[u]]
  /\ UNCHANGED file

\* store.rs 105-106: File::open(&temp_path)?, sync_all
ThrSaveSync(t) ==
  /\ thr[t].pc = "save_sync"
  /\ IF tmp.kind = "absent" THEN ThrSaveFailed(t)
     ELSE /\ SetThr(t, [thr[t] EXCEPT !.pc = "save_rename"])
          /\ UNCHANGED <<file, tmp, lock>>
  /\ UNCHANGED <<data, seen>>
  /\ ThrFrame

\* store.rs 109: fs::rename(&temp_path, &self.path)?
ThrSaveRename(t) ==
  /\ thr[t].pc = "save_rename"
  /\ IF tmp.kind = "absent" THEN ThrSaveFailed(t)
     ELSE /\ file' = tmp
          /\ tmp' = NoFile
          /\ thr' = [u \in Threads |->
               IF u = t THEN [thr[t] EXCEPT !.pc = "save_dirsync"]
               ELSE IF thr[u].fd = "tmp" THEN [thr[u] EXCEPT !.fd = "live"]
               ELSE IF thr[u].fd = "live" THEN [thr[u] EXCEPT !.fd = "unlinked"]
               ELSE thr[u]]
          /\ UNCHANGED lock
  /\ UNCHANGED <<data, seen>>
  /\ ThrFrame

\* store.rs 112-117, 130, 143: the directory is synced, save returns, the
\* read guard is dropped and the call returns
ThrSaveSyncDir(t) ==
  /\ thr[t].pc = "save_dirsync"
  /\ lock' = [lock EXCEPT !.readers = @ \ {t}]
  /\ SetThr(t, [thr[t] EXCEPT !.pc = "done", !.saved = "ok"])
  /\ UNCHANGED <<data, file, tmp, seen>>
  /\ ThrFrame

\* get_command that looks at the state without taking the read guard
ThrGetCommandUnguarded ==
  /\ Len(seen) < MaxReads
  /\ seen' = Append(seen, [data |-> data, got |-> get_command(data, "c1")])
  /\ UNCHANGED <<data, file, tmp, lock, thr>>
  /\ ThrFrame

\* store.rs 146-149: the third thread takes a read guard, looks up c1 and
\* drops the guard
ThrGetCommand ==
  /\ Len(seen) < MaxReads
  /\ lock.writer = None
  /\ seen' = Append(seen, [data |-> data, got |-> get_command(data, "c1")])
  /\ UNCHANGED <<data, file, tmp, lock, thr>>
  /\ ThrFrame

ThrInit ==
  /\ impl = "SshExecutor"
  /\ host = DummyHost(None, None)
  /\ background = FALSE
  /\ scriptStatus = 0
  /\ Idle
  /\ selHost = DummyHost(None, None) /\ selLocal = "none"
  /\ ConcIdle
  /\ data0 \in ThrStartData
  /\ data = data0
  /\ file = to_string_pretty(data0) /\ oldFile = NoFile /\ tmp = NoFile
  /\ st_pc = "idle" /\ json = NoFile
  /\ saved = "none" /\ returned = <<>> /\ faults = 0
  /\ logs = [n \in LogNames |-> NoFile]
  /\ snapshots = {}
  /\ AppIdle
  /\ ShIdle
  /\ AuthIdle
  /\ lock = Unlocked
  /\ thr \in [Threads -> { [pc |-> "call", call |-> c, json |-> NoFile,
                            fd |-> "closed", saved |-> "none"] :
                           c \in ThrCalls }]
  /\ seen = <<>>

ThrNext ==
  \/ \E t \in Threads : ThrWriteLock(t)
  \/ \E t \in Threads : ThrRetain(t)
  \/ \E t \in Threads : ThrPush(t)
  \/ \E t \in Threads : ThrWriteUnlock(t)
  \/ \E t \in Threads : ThrSaveSerialize(t)
  \/ \E t \in Threads : ThrSaveWriteBegin(t)
  \/ \E t \in Threads : ThrSaveWriteEnd(t)
  \/ \E t \in Threads : ThrSaveSync(t)
  \/ \E t \in Threads : ThrSaveRename(t)
  \/ \E t \in Threads : ThrSaveSyncDir(t)
  \/ ThrGetCommand

ThrSpec == ThrInit /\ [][ThrNext]_vars

(***************************************************************************)
(* Fairness: the worker thread, the reader threads and the UI frame loop   *)
(* keep being scheduled.  The child process and the user are not obliged   *)
(* to do anything.                                                         *)
(***************************************************************************)
WorkerMain ==
  \/ SshStarted \/ SshLocalStage \/ SshLocalSpawn \/ SshLocalPoll
  \/ SshLocalKill \/ SshLocalWait \/ SshConnect \/ SshHandshake
  \/ SshAuthenticate \/ SshUpload \/ SshChannelExec \/ SshRemotePoll
  \/ SshRemoteReadStdout \/ SshRemoteReadStderr \/ SshRemoteEof
  \/ ExecutorStarted \/ ExecutorConnect \/ ExecutorReportError
  \/ OrchWriteFile \/ OrchPreamble \/ OrchBackground \/ LocalSpawn
  \/ LocalPoll \/ LocalDrain \/ LocalWait \/ RemoteChannelExec
  \/ RemotePoll \/ RemoteReadStdout \/ RemoteReadStderr \/ RemoteEof

Readers ==
  \/ SshLocalReadStdout \/ SshLocalReadStderr
  \/ LocalReadStdout \/ LocalReadStderr

FairSpec ==
  /\ Spec
  /\ WF_vars(WorkerMain)
  /\ WF_vars(Readers)
  /\ WF_vars(UiPollUpdates)

(***************************************************************************)
(* Properties                                                              *)
(***************************************************************************)
StartedIndices == {i \in 1..Len(events) : events[i].t = "Started"}
FirstExit == CHOOSE i \in ExitIndices : \A j \in ExitIndices : i <= j
Last(seq) == seq[Len(seq)]
Local(h) == IF impl = "SshExecutor" THEN SshExecutorIsLocal(h)
            ELSE ExecutorIsLocal(h)

\* C1: an execution delivers at most one Exit, and no update of the
\* execution is delivered after its Exit, also not a chunk that a reader
\* thread was still holding.
C1_ExitIsLast ==
  \A i \in 1..Len(events) : events[i].t = "Exit" => i = Len(events)

\* C2: the callback receives exactly one Started, and it precedes every
\* Stdout, Stderr and Exit of the execution.
C2_StartedFirst ==
  /\ Cardinality(StartedIndices) <= 1
  /\ events # <<>> => events[1].t = "Started"
  /\ pc \notin {"idle", "spawned"} => Cardinality(StartedIndices) = 1

C2_Witness ==
  /\ pc = "done"
  /\ \E i \in 1..Len(events) : events[i].t = "Stdout"
  /\ \E i \in 1..Len(events) : events[i].t = "Stderr"
  /\ HasExit

\* C3: in a foreground local run that is not cancelled, every chunk the
\* process wrote is delivered to the callback before the Exit update.
C3_OutputBeforeExit ==
  (HasExit /\ Local(host) /\ ~background /\ failure = "none" /\ ~killObserved)
    => \A k \in 1..Len(written) :
         \E j \in 1..(FirstExit - 1) :
           /\ events[j].t \in {"Stdout", "Stderr"}
           /\ \E m \in 1..Len(events[j].s) : events[j].s[m] = written[k]

\* C4: a cancellation signal sent while the process of a foreground run is
\* still running terminates the process and ends the execution with
\* Exit(-1) as its last update.
C4_CancelEndsWithKilledExit ==
  (killLive /\ failure = "none" /\ pc = "done" /\ pipeOut = <<>>
     /\ pipeErr = <<>>)
    => /\ Last(events) = Exit(-1)
       /\ proc \in {"killed", "exited"}

ReportedFailures ==
  {"stage", "spawn", "connect", "session", "handshake", "auth", "upload",
   "channel"}

C6_ConnectFailureSequence ==
  (failure \in {"connect", "handshake", "auth"} /\ pc = "done")
    => /\ Len(events) = 3
       /\ events[1].t = "Started"
       /\ events[2].t = "Stderr"
       /\ events[3] = Exit(-1)

C6_Witness ==
  /\ ~Local(host)
  /\ failure \in {"connect", "handshake", "auth"}
  /\ pc = "done"
  /\ Len(events) = 3

\* C7: once the process has terminated or a cancellation signal has been
\* sent, the worker's loop ends and Exit is delivered.
C7_EventuallyExit ==
  (pc # "idle" /\ (proc \in {"exited", "killed"} \/ kills > 0)) ~> HasExit

\* C8: in a foreground run that is not cancelled, the code of Exit is the
\* exit status with which the staged script terminated.
C8_ExitCodeIsScriptStatus ==
  (HasExit /\ ~background /\ failure = "none" /\ ~killObserved)
    => events[FirstExit].c = scriptStatus

\* C9: a cancellation signal sent after Exit was delivered is a no-op: the
\* kill channel is not read again, no kill notice and no further Exit is
\* delivered, and the exit code shown and persisted is that of the Exit.
C9_LateCancelIsNoOp ==
  [][killLate =>
       /\ killObserved' = killObserved
       /\ ExitIndices' = ExitIndices
       /\ \A i \in (Len(events) + 1)..Len(events') :
            events'[i] \notin {Stderr(<<KillNotice>>),
                               Stderr(<<TerminatedNotice>>)}
       /\ exit_code' \in {None, Some(events[FirstExit].c)}
       /\ \A i \in 1..Len(persisted') :
            persisted'[i].exit_code = Some(events[FirstExit].c)
       /\ Len(persisted') <= 1]_vars

C9_Witness ==
  /\ killLate
  /\ pc = "done"
  /\ Len(persisted) = 1
  /\ uiPos = Len(events)


C11_ExecuteNonBlocking ==
  /\ ret \in {"none", "Ok"}
  /\ (ret = "none") <=> (pc = "idle")
  /\ pc = "spawned" =>
       /\ ret = "Ok"
       /\ events = <<>> /\ proc = "none" /\ failure = "none"
  /\ failure # "none" =>
       /\ ret = "Ok"
       /\ pc = "done" => HasExit

C11_Witness ==
  /\ ret = "Ok"
  /\ pc = "spawned"
  /\ ~Local(host)
  /\ events = <<>>
  /\ is_running

\* the updates that arrived with the exec_id of execution e, in order
RECURSIVE UpdatesOf(_, _)
UpdatesOf(rx, id) ==
  IF rx = <<>> THEN <<>>
  ELSE IF Head(rx).id = id THEN <<Head(rx).u>> \o UpdatesOf(Tail(rx), id)
  ELSE UpdatesOf(Tail(rx), id)

WellFormed(us) ==
  /\ us # <<>> => us[1].t = "Started"
  /\ \A i \in 1..Len(us) : us[i].t = "Started" => i = 1
  /\ \A i \in 1..Len(us) : us[i].t = "Exit" => i = Len(us)

\* every update carries the exec_id of the worker that produced it, and no
\* two executions share an exec_id
OwnCallbackOnly ==
  /\ \A i \in 1..Len(execution_rx) :
       execution_rx[i].id = workers[execution_rx[i].src].exec_id
  /\ \A e, f \in Execs :
       (e # f /\ workers[e].pc # "idle" /\ workers[f].pc # "idle")
         => workers[e].exec_id # workers[f].exec_id

\* an execution whose process has terminated gets its Exit while another
\* execution runs a script that never terminates
NoDelayByEndlessExecution ==
  \A e \in Execs :
    (workers[e].proc = "exited")
      ~> (\E i \in 1..Len(execution_rx) :
            execution_rx[i].id = workers[e].exec_id
              /\ execution_rx[i].u.t = "Exit")

\* C12: concurrent executions are independent: the updates of an execution
\* reach the application only under that execution's exec_id, and under
\* each exec_id they arrive in the well-formed order Started, output, Exit.
C12_ConcurrentExecutionsIndependent ==
  /\ OwnCallbackOnly
  /\ \A e \in Execs :
       workers[e].pc # "idle"
         => WellFormed(UpdatesOf(execution_rx, workers[e].exec_id))

\* the ids of the records of a collection
Ids(records) == {records[i].id : i \in 1..Len(records)}
Saving ==
  st_pc \in {"save_write", "save_writing", "save_sync", "save_rename",
             "save_dirsync"}

\* C13: remove_command leaves a command in the store while a stored
\* workflow lists it, and removes it once no stored workflow lists it.
C13_ReferencedCommandNotRemoved ==
  [][\A id \in CommandIds :
       (RemoveCommand(id) /\ id \in Ids(data.commands))
         => IF is_command_in_workflow(data, id)
              THEN data'.commands = data.commands
              ELSE id \notin Ids(data'.commands)]_vars

\* C14: is_command_in_workflow(id) returns true exactly when a stored
\* workflow lists id among its steps: it is true of every step of a workflow
\* that add_workflow has just stored, and false of a command once
\* remove_workflow has removed the last workflow that listed it.
C14_InWorkflowIffListed ==
  /\ []((Len(returned) = 3 /\ returned[1] = "bool")
          => (returned[3] <=>
                \E i \in 1..Len(data.workflows) :
                  \E j \in 1..Len(data.workflows[i].commands) :
                    data.workflows[i].commands[j] = returned[2]))
  /\ [][\A w \in StoreWorkflows :
          AddWorkflow(w)
            => \A j \in 1..Len(w.commands) :
                 is_command_in_workflow(data', w.commands[j])]_vars
  /\ [][\A wid \in WorkflowIds, id \in CommandIds :
          (/\ RemoveWorkflow(wid)
           /\ \A i \in 1..Len(data.workflows) :
                (\E j \in 1..Len(data.workflows[i].commands) :
                   data.workflows[i].commands[j] = id)
                  => data.workflows[i].id = wid)
            => ~is_command_in_workflow(data', id)]_vars

C14_Witness ==
  /\ returned = <<"bool", "c1", TRUE>>
  /\ Len(data.workflows) = 1
  /\ data.workflows[1].commands = <<"c2", "c1">>
  /\ st_pc = "idle"

\* the records of a collection whose id is not id, in their order
Others(records, id) == SelectSeq(records, LAMBDA x : x.id # id)
\* the positions of a collection that hold a record with this id
Holding(records, id) == {i \in 1..Len(records) : records[i].id = id}

\* C15: after add_command, add_host or add_workflow of a record exactly one
\* record of the collection has that id, it is the record just added, and
\* the other records of the collection are as they were.
C15_AddIsUpsert ==
  /\ [][\A cmd \in StoreCommands :
          AddCommand(cmd)
            => /\ Cardinality(Holding(data'.commands, cmd.id)) = 1
               /\ \E i \in 1..Len(data'.commands) : data'.commands[i] = cmd
               /\ Others(data'.commands, cmd.id) = Others(data.commands, cmd.id)
               /\ data'.workflows = data.workflows
               /\ data'.hosts = data.hosts]_vars
  /\ [][\A h \in StoreHosts :
          AddHost(h)
            => /\ Cardinality(Holding(data'.hosts, h.id)) = 1
               /\ \E i \in 1..Len(data'.hosts) : data'.hosts[i] = h
               /\ Others(data'.hosts, h.id) = Others(data.hosts, h.id)]_vars
  /\ [][\A w \in StoreWorkflows :
          AddWorkflow(w)
            => /\ Cardinality(Holding(data'.workflows, w.id)) = 1
               /\ \E i \in 1..Len(data'.workflows) : data'.workflows[i] = w
               /\ Others(data'.workflows, w.id) = Others(data.workflows, w.id)
               /\ data'.commands = data.commands]_vars

C15_Witness ==
  /\ st_pc = "save"
  /\ Len(data.commands) = 2
  /\ data.commands[1].id = "c2"
  /\ data.commands[2] = [id |-> "c1", name |-> "b", source_path |-> None]
  /\ file.kind = "doc"
  /\ file.commands = <<[id |-> "c1", name |-> "a"], [id |-> "c2", name |-> "a"]>>

\* C16: at every point of a save, and after a crash at any point, the live
\* store file holds the complete content it had before the save or the
\* complete new serialization, never a partly written document.
C16_LiveFileOldOrNew ==
  /\ file.kind \in {"absent", "doc"}
  /\ Saving => file \in {oldFile, json}
  /\ ~Saving => file = oldFile
  /\ st_pc = "save_dirsync" => file = json

C16_Witness ==
  /\ st_pc = "idle"
  /\ faults = 1
  /\ tmp = Partial
  /\ file.kind = "doc"
  /\ data = load(file)

\* C17: when a mutating operation has returned and its save did not fail,
\* the live store file is the serialization of the in-memory state.
C17_FileIsSerializedState ==
  (st_pc = "idle" /\ saved = "ok") => file = to_string_pretty(data)

C17_Witness ==
  /\ st_pc = "idle" /\ saved = "ok"
  /\ faults = 1
  /\ Len(data.commands) = 1 /\ Len(data.workflows) = 1
  /\ Len(data.hosts) = 1 /\ Len(data.executions) = 1
  /\ file = to_string_pretty(data)

\* C18: when a step of save fails, save returns to its caller and the live
\* store file still has the content it had before the save.
C18_FailedSaveKeepsLiveFile ==
  saved = "failed" =>
    /\ st_pc \in {"idle", "save"}
    /\ file = oldFile
    /\ file.kind \in {"absent", "doc"}
    /\ tmp = NoFile

C18_Witness ==
  /\ saved = "failed"
  /\ st_pc = "idle"
  /\ file.kind = "doc"
  /\ file # to_string_pretty(data)

\* C19: the text returned by export_json, imported into a fresh store, gives
\* a store with the same ids of commands, workflows, hosts and executions.
C19_ExportImportRoundTrip ==
  (Len(returned) = 2 /\ returned[1] = "Ok") =>
    LET r == import_json(EmptyData, returned[2]) IN
    /\ r.ok
    /\ Ids(r.data.commands) = Ids(data.commands)
    /\ Ids(r.data.workflows) = Ids(data.workflows)
    /\ Ids(r.data.hosts) = Ids(data.hosts)
    /\ Ids(r.data.executions) = Ids(data.executions)

C19_Witness ==
  /\ Len(returned) = 2 /\ returned[1] = "Ok"
  /\ Ids(data.commands) = {"c1", "c2"}
  /\ Ids(data.workflows) = {"w1", "w2"}
  /\ Ids(data.hosts) = {"h1"}
  /\ Ids(data.executions) = {"e1"}
  /\ import_json(EmptyData, returned[2]).data # data

\* C20: after a successful import_json the commands, workflows, hosts and
\* executions are exactly those of the imported document, and no record
\* that was stored before and is absent from the document remains.
C20_ImportReplacesState ==
  [][\A text \in ImportTexts :
       (ImportJson(text) /\ text.kind = "doc")
         => /\ [i \in 1..Len(data'.commands) |->
                  [id |-> data'.commands[i].id, name |-> data'.commands[i].name]]
                 = text.commands
            /\ data'.workflows = text.workflows
            /\ data'.hosts = text.hosts
            /\ data'.executions =
                 (IF text.executions = None THEN <<>> ELSE text.executions[1])
            /\ Ids(data'.commands) \cap (Ids(data.commands) \ Ids(text.commands))
                 = {}
            /\ Ids(data'.hosts) \cap (Ids(data.hosts) \ Ids(text.hosts)) = {}
            /\ Ids(data'.workflows)
                 \cap (Ids(data.workflows) \ Ids(text.workflows)) = {}]_vars

C20_Witness ==
  /\ st_pc = "save"
  /\ file.kind = "doc"
  /\ Len(file.hosts) = 1 /\ Len(file.workflows) = 2
  /\ file.executions # Some(<<>>)
  /\ data.hosts = <<>>
  /\ data.workflows = <<>>
  /\ data.executions = <<>>
  /\ Ids(data.commands) = {"c2"}

Recorded(d) == {d.executions[i] : i \in 1..Len(d.executions)}

\* C22 (as stated): a recorded ExecutionResult is never changed or removed
\* by a later store operation: the history only grows by appending.
C22_HistoryOnlyGrows ==
  [][/\ Len(data.executions) <= Len(data'.executions)
     /\ SubSeq(data'.executions, 1, Len(data.executions)) = data.executions
    ]_vars

\* C22 (amended): a recorded ExecutionResult is changed or removed only by
\* add_execution of a result with the same id, which replaces it, or by a
\* successful import_json, which replaces the whole history; every other
\* store operation leaves the recorded results and their order as they are.
C22_HistoryChangedOnlyByReAddOrImport ==
  [][\/ data'.executions = data.executions
     \/ \E text \in ImportTexts : ImportJson(text) /\ text.kind = "doc"
     \/ \E result \in StoreResults, output \in StoreOutputs :
          /\ StoreAddExecution(result, output)
          /\ Recorded(data) \ Recorded(data')
               \subseteq {r \in Recorded(data) : r.id = result.id}
          /\ result \in Recorded(data')]_vars

C22_Witness ==
  /\ st_pc = "save"
  /\ file.kind = "doc"
  /\ "c1" \in Ids(file.commands)
  /\ "c1" \notin Ids(data.commands)
  /\ Len(data.executions) = 1
  /\ data.executions[1].command_id = "c1"
  /\ file.executions = Some(data.executions)

C24_BadFileStartsEmpty ==
  /\ [](st_pc # "failed")
  /\ [][New => /\ st_pc' = "idle"
               /\ file' = file
               /\ (file.kind \notin {"absent", "doc"} => data' = EmptyData)
               /\ (file.kind = "doc" => data' = from_str(file).data)]_vars

C24_Witness ==
  /\ st_pc = "idle"
  /\ file \in {Unreadable, Garbage, Partial}
  /\ data = EmptyData
  /\ saved = "none"

C26_EnvIsDefaultsOverridden ==
  [][/\ \A w \in DOMAIN AppWorkflows :
          TriggerWorkflowExecution(w) /\ calls' # calls
            => calls'[Len(calls')].env =
                 InsertAll(Defaults(calls'[Len(calls')].cmd_id),
                           active_workflow'[1].resolved_env)
     /\ \A id \in 1..MaxRuns, code \in ExitCodes :
          ExecutionExit(id, code) /\ calls' # calls
            => calls'[Len(calls')].env =
                 InsertAll(Defaults(calls'[Len(calls')].cmd_id),
                           active_workflow'[1].resolved_env)
     /\ \A c \in DOMAIN AppCommands :
          TriggerCommandExecution(c) /\ calls' # calls
            => calls'[Len(calls')].env = Defaults(c)
     /\ \A edited \in AllEdits :
            ConfirmPending(edited) =>
              LET pending == pending_execution[1]
                  final_vars == InsertVars(pending.initial_vars, edited)
              IN calls'[Len(calls')].env =
                   InsertAll(Defaults(calls'[Len(calls')].cmd_id), final_vars)
    ]_vars

\* C27: the staged script of every run is started in an environment that
\* holds SWITCHBOARD_RUN with the run's execution id, SWITCHBOARD_LOG with
\* its log path, and every variable of the caller's map with the caller's
\* value, also when the caller's map already held the two implicit keys.
C27_ImplicitVariablesExported ==
  sh_pc = "ran" =>
    /\ shell[1].script # None
    /\ LET env == shell[1].script[1] IN
       /\ DOMAIN env = DOMAIN env_vars
       /\ env["SWITCHBOARD_RUN"] = ExecId
       /\ env["SWITCHBOARD_LOG"] = LogPath
       /\ \A k \in DOMAIN env \ {"SWITCHBOARD_RUN", "SWITCHBOARD_LOG"} :
            env[k] = env_vars[k]

\* C28: once a foreground run whose command line was started has delivered
\* its Exit, be it the status of the command line or the -1 of a
\* cancellation, the staged script file does not exist.
C28_StagedScriptRemovedAtExit ==
  (impl = "Executor" /\ ~background /\ failure = "none" /\ HasExit)
    => script_file = "absent"

\* C29: when the detached launch of a background command has succeeded, the
\* updates after the preamble are the Stdout with the process hint and then
\* Exit(0), nothing else; the launch step delivers both at once and ends
\* the run, whatever the script's status and whether or not a cancellation
\* signal was sent, and no later step delivers anything.
C29_BackgroundHintThenExitZero ==
  /\ []((impl = "Executor" /\ background /\ proc = "detached") =>
          /\ pc = "done"
          /\ Len(events) = Len(Preamble(host)) + 3
          /\ SubSeq(events, 2, Len(events) - 2) = Preamble(host)
          /\ SubSeq(events, Len(events) - 1, Len(events)) =
               <<Stdout(<<"Background process started">>), Exit(0)>>)
  /\ [][(OrchBackground /\ proc' = "detached") =>
          events' = events \o
            <<Stdout(<<"Background process started">>), Exit(0)>>]_vars

C29_Witness ==
  /\ impl = "Executor" /\ background /\ proc = "detached"
  /\ scriptStatus = 3
  /\ kills = 1 /\ killq = 1
  /\ events[Len(events)] = Exit(0)

\* the methods in the order of the claim, and the place of a method in it
AuthOrder == <<"agent">> \o key_types
Place(m) == CHOOSE n \in 1..Len(AuthOrder) : AuthOrder[n] = m
\* a method authenticates when tried
Authenticates(m) ==
  IF m = "agent" THEN ssh_world.agent = "authenticated"
  ELSE ssh_world.key[m] = "authenticated"
\* the methods connect can try: the agent, and the key files found
Available ==
  {"agent"} \cup (IF ssh_world.home THEN ssh_world.exists ELSE {})

\* C30: the methods are tried in the order agent, id_ed25519, id_ecdsa,
\* id_rsa, id_dsa, the agent first; no method is tried after one that
\* authenticated; connect succeeds exactly when the last method tried
\* authenticated, and ends with the authentication error only when every
\* method it can try has been tried and none authenticated.
C30_AuthOrderFirstSuccess ==
  /\ \A a, b \in 1..Len(conn.tried) :
       a < b => Place(conn.tried[a]) < Place(conn.tried[b])
  /\ (conn.tried # <<>> => conn.tried[1] = "agent")
  /\ \A a \in 1..Len(conn.tried) :
       a < Len(conn.tried) => ~Authenticates(conn.tried[a])
  /\ (conn.result = "Ok" =>
        /\ conn.tried # <<>>
        /\ Authenticates(conn.tried[Len(conn.tried)]))
  /\ (conn.result = "AuthFailed" =>
        /\ {conn.tried[a] : a \in 1..Len(conn.tried)} = Available
        /\ \A m \in Available : ~Authenticates(m))

C30_Witness ==
  /\ conn.result = "Ok"
  /\ conn.tried = <<"agent", "id_ecdsa", "id_rsa">>
  /\ ssh_world.key["id_dsa"] = "authenticated"

\* what a call makes of a StoreData when it runs alone
ApplyCall(d, c) ==
  IF c.kind = "add_command" THEN add_command(d, c.cmd)
  ELSE remove_command(d, c.cmd.id)
ThrDone == \A t \in Threads : thr[t].pc = "done"

\* C31: once both threads' calls have returned, the StoreData is what the
\* two calls give when run one after the other in one of the two orders;
\* and whenever the reading thread looks, the StoreData is one that some
\* calls, each run whole, give: an id that a thread is upserting is never
\* missing when it was there before the upsert.
C31_MutationsSerializable ==
  /\ (ThrDone =>
        \E a, b \in Threads :
          /\ a # b
          /\ data = ApplyCall(ApplyCall(data0, thr[a].call), thr[b].call))
  /\ \A i \in 1..Len(seen) :
       \/ seen[i].data = data0
       \/ \E a \in Threads : seen[i].data = ApplyCall(data0, thr[a].call)
       \/ \E a, b \in Threads :
            /\ a # b
            /\ seen[i].data =
                 ApplyCall(ApplyCall(data0, thr[a].call), thr[b].call)

C31_Witness ==
  /\ ThrDone
  /\ thr["t1"].call.kind = "add_command" /\ thr["t1"].call.cmd.id = "c1"
  /\ thr["t2"].call.kind = "remove_command"
  /\ get_command(data0, "c1") # None
  /\ Len(seen) = 2
  /\ seen[1].got = Some([id |-> "c1", name |-> "a", source_path |-> None])
  /\ seen[2].got = Some([id |-> "c1", name |-> "b", source_path |-> None])
  /\ get_command(data, "c1") = None

\* C32 (first half): the live store file never holds a partly written
\* document while two threads save.
C32_LiveFileNeverPartial ==
  file.kind # "partial"

\* C32 (second half): once both calls have returned, the live file is the
\* serialization of the StoreData.
C32_LiveFileFinal ==
  ThrDone => file = to_string_pretty(data)

\* C33: a foreground local run is reported as killed only if a signal was
\* sent before the process had terminated by itself, that is before it was
\* spawned or while it ran; a signal sent after the process has exited does
\* not turn its Exit(c) into the kill notice and Exit(-1).
C33_KilledOnlyIfSignalBeforeExit ==
  (impl = "Executor" /\ ExecutorIsLocal(host) /\ ~background /\ killObserved)
    => (killEarly \/ killLive)

\* no two records of a collection have the same id
UniqueIds(records) ==
  \A i, j \in 1..Len(records) : records[i].id = records[j].id => i = j

\* C34: after any sequence of store operations, import_json included, no
\* two commands, no two hosts, no two workflows and no two executions of
\* the store share an id.
C34_IdsUnique ==
  /\ UniqueIds(data.commands)
  /\ UniqueIds(data.hosts)
  /\ UniqueIds(data.workflows)
  /\ UniqueIds(data.executions)

\* C35: in every store state every command id among the steps of a stored
\* workflow is the id of a stored command.
C35_NoDanglingStep ==
  \A i \in 1..Len(data.workflows) :
    \A j \in 1..Len(data.workflows[i].commands) :
      data.workflows[i].commands[j] \in Ids(data.commands)

\* C36: import_json of a text that is not a store document returns Err,
\* leaves the StoreData, the live file and the temporary file as they were
\* and starts no save.
C36_BadImportChangesNothing ==
  [][\A text \in ImportTexts :
       (ImportJson(text) /\ text.kind # "doc")
         => /\ returned' = <<"Err">>
            /\ data' = data
            /\ file' = file
            /\ tmp' = tmp
            /\ st_pc' = "idle"]_vars

C36_Witness ==
  /\ returned = <<"Err">>
  /\ st_pc = "idle"
  /\ Len(data.commands) = 2 /\ Len(data.workflows) = 1
  /\ file = to_string_pretty(data)

\* the places of the trace where a workflow launched a step
StepLaunches ==
  {p \in 1..Len(trace) : trace[p].t = "launch" /\ trace[p].workflow # None}
\* the launch of a workflow step that precedes place p most closely
LastStepLaunch(p) ==
  CHOOSE q \in StepLaunches :
    q < p /\ \A m \in StepLaunches : m < p => m <= q

\* C37: a step after the first is launched only when the step before it,
\* of the same workflow, was the last step launched and its execution has
\* delivered Exit(0); after a step's execution delivered a non-zero Exit no
\* later step of that run is launched.
C37_StepsInOrderAfterExitZero ==
  /\ \A p \in StepLaunches :
       trace[p].step > 0 =>
         /\ \E q \in StepLaunches : q < p
         /\ LET q == LastStepLaunch(p) IN
            /\ trace[q].workflow = trace[p].workflow
            /\ trace[q].step = trace[p].step - 1
            /\ \E r \in (q + 1)..(p - 1) :
                 trace[r] = Exited(trace[q].exec_id, 0)
  /\ \A q \in StepLaunches : \A r \in (q + 1)..Len(trace) :
       (trace[r].t = "exit" /\ trace[r].exec_id = trace[q].exec_id
          /\ trace[r].code # 0)
         => \A p \in StepLaunches :
              (p > r /\ trace[p].step > trace[q].step)
                => \E m \in StepLaunches : q < m /\ m < p /\ trace[m].step = 0

\* the execution launched for the current step of the active workflow
OwnExecution == trace[LastStepLaunch(Len(trace) + 1)].exec_id

\* C38: a single command started by hand while a workflow is active leaves
\* the execution the workflow waits on as it is; the workflow launches its
\* next step exactly when the execution of its own current step delivers
\* Exit(0), and the exit of another execution launches nothing.
C38_ManualRunLeavesWorkflowAlone ==
  [][/\ \A c \in DOMAIN AppCommands :
          (TriggerCommandExecution(c) /\ active_workflow # None)
            => /\ active_workflow' # None
               /\ active_workflow'[1].current_execution_id
                    = active_workflow[1].current_execution_id
     /\ \A edited \in AllEdits :
          (/\ ConfirmPending(edited)
           /\ pending_execution[1].workflow_id = None
           /\ active_workflow # None)
            => /\ active_workflow' # None
               /\ active_workflow'[1].current_execution_id
                    = active_workflow[1].current_execution_id
     /\ \A id \in 1..MaxRuns, code \in ExitCodes :
          (ExecutionExit(id, code) /\ active_workflow # None)
            => LET aw == active_workflow[1]
                   wf == AppWorkflows[aw.workflow_id]
               IN (calls' # calls) <=>
                    /\ id = OwnExecution
                    /\ code = 0
                    /\ aw.current_step_index + 1 < Len(wf.commands)
    ]_vars

\* C39: in the environment of every step a workflow launches, a variable
\* that the step's command declares, that the workflow does not declare and
\* that the prompt of the workflow does not ask for has the value the
\* command declares for it.
C39_StepKeepsOwnDefault ==
  \A p \in StepLaunches :
    LET call == calls[trace[p].exec_id]
        wf == AppWorkflows[trace[p].workflow[1]]
        declared == AppCommands[call.cmd_id]
    IN \A i \in 1..Len(declared) :
         (/\ ~HasKey(wf.env_vars, declared[i].key)
          /\ ~HasKey(ResolveWorkflow(wf).ask, declared[i].key))
           => call.env[declared[i].key] = Defaults(call.cmd_id)[declared[i].key]

\* C40: get_execution_log returns the captured output, not None, for every
\* execution recorded in the store, also one whose log could not be written
\* and one that came in through import_json.
C40_EveryRecordedExecutionHasLog ==
  \A id \in Ids(data.executions) :
    get_execution_log(data, logs, id) # None

====
